---- MODULE Spec2Model ----
(***************************************************************************)
(* Model of the bible-api request handlers: the reference parser, the      *)
(* verse routes (single, batch, compare) and the substring search of the   *)
(* query layer, over a store of translations and verses.                   *)
(*                                                                         *)
(* Strings are sequences of one-character strings, so that trimming,       *)
(* lower-casing, splitting, pattern matching and number formatting are     *)
(* computed character by character as the code computes them.  Literal     *)
(* fragments of message templates are kept as single multi-character       *)
(* atoms, which no user input (made of single characters) can equal.       *)
(***************************************************************************)
EXTENDS Integers, Sequences, FiniteSets, TLC

VARIABLES translations, verses, req, parsed, res,
          database, translationCache, touched, translationsMeta, callers,
          importer

\* the module-level state of the services besides the store itself: the
\* database handle and its prepared statements, the cache of parsed
\* translations with the order its keys were touched in, the list of
\* discovered translations with the callers discovering it, and the import
\* script
services == <<database, translationCache, touched, translationsMeta, callers,
              importer>>

vars == <<translations, verses, req, parsed, res, services>>

(***************************************************************************)
(* Bounds of the model.                                                    *)
(***************************************************************************)
\* largest number of comma-separated segments in a refs / translations list
MaxSegs == 2
\* largest verse number written in a generated reference
MaxVerse == 3

(***************************************************************************)
(* Characters and strings.                                                 *)
(***************************************************************************)
UpperChars == <<"A","B","C","D","E","F","G","H","I","J","K","L","M",
                "N","O","P","Q","R","S","T","U","V","W","X","Y","Z">>
LowerChars == <<"a","b","c","d","e","f","g","h","i","j","k","l","m",
                "n","o","p","q","r","s","t","u","v","w","x","y","z">>
DigitChars == <<"0","1","2","3","4","5","6","7","8","9">>

Range(s) == {s[i] : i \in DOMAIN s}

IsDigit(c) == c \in Range(DigitChars)
IsLowerAlnum(c) == c \in Range(DigitChars) \cup Range(LowerChars)
IsSpace(c) == c = " "

\* String.prototype.toLowerCase on one character (ASCII letters)
LowerChar(c) ==
  IF c \in Range(UpperChars)
    THEN LowerChars[CHOOSE i \in DOMAIN UpperChars : UpperChars[i] = c]
    ELSE c

\* variant: the string is left in the case it was typed in
toLowerCase_Identity(s) == s

toLowerCase(s) == [i \in DOMAIN s |-> LowerChar(s[i])]

\* String.prototype.trim: drop leading and trailing whitespace
RECURSIVE trimStart(_)
trimStart(s) ==
  IF s # <<>> /\ IsSpace(Head(s)) THEN trimStart(Tail(s)) ELSE s

RECURSIVE trimEnd(_)
trimEnd(s) ==
  IF s # <<>> /\ IsSpace(s[Len(s)]) THEN trimEnd(SubSeq(s, 1, Len(s) - 1)) ELSE s

trim(s) == trimEnd(trimStart(s))

\* String.prototype.split(sep) for a one-character separator:
\* always at least one part, empty parts are kept
RECURSIVE splitAcc(_, _, _)
splitAcc(s, sep, cur) ==
  IF s = <<>> THEN <<cur>>
  ELSE IF Head(s) = sep THEN <<cur>> \o splitAcc(Tail(s), sep, <<>>)
  ELSE splitAcc(Tail(s), sep, Append(cur, Head(s)))

split(s, sep) == splitAcc(s, sep, <<>>)

\* parseInt(str, 10) on a non-empty string of decimal digits
DigitValue(c) == (CHOOSE i \in DOMAIN DigitChars : DigitChars[i] = c) - 1

RECURSIVE parseInt(_)
parseInt(s) ==
  IF s = <<>> THEN 0
  ELSE 10 * parseInt(SubSeq(s, 1, Len(s) - 1)) + DigitValue(s[Len(s)])

\* template interpolation `${n}` of a non-negative integer
RECURSIVE numToString(_)
numToString(n) ==
  IF n < 10 THEN <<DigitChars[n + 1]>>
  ELSE numToString(n \div 10) \o <<DigitChars[(n % 10) + 1]>>

\* the message (a sequence of atoms) contains the literal fragment
ContainsLiteral(msg, lit) == \E i \in DOMAIN msg : msg[i] = lit

\* an optional string parameter that was not supplied (undefined)
Absent == <<"undefined">>

\* variant: an empty string counts as supplied
TruthyStr_DefinedOnly(s) == s # Absent

\* JavaScript truthiness of an optional string: supplied and non-empty
TruthyStr(s) == s # Absent /\ s # <<>>

\* an optional number that is undefined
Undefined == -1

\* JavaScript truthiness of an optional number: defined and non-zero
TruthyNum(n) == n # Undefined /\ n # 0

(***************************************************************************)
(* Book catalog (data/books): a fixed table of books with id, number,      *)
(* chapter count, localized names and aliases.  Three of the 66 entries.   *)
(***************************************************************************)
BOOKS == <<
  [id |-> <<"p","s","a">>, number |-> 19, testament |-> "old", chapters |-> 150,
   names |-> [en |-> <<"P","s","a","l","m","s">>, fr |-> <<"P","s","a","u","m","e","s">>],
   aliases |-> {<<"p","s","a","l","m">>, <<"p","s">>}],
  [id |-> <<"j","h","n">>, number |-> 43, testament |-> "new", chapters |-> 21,
   names |-> [en |-> <<"J","o","h","n">>, fr |-> <<"J","e","a","n">>],
   aliases |-> {<<"j","o","h","n">>, <<"j","n">>}],
  [id |-> <<"1","c","o">>, number |-> 46, testament |-> "new", chapters |-> 16,
   names |-> [en |-> <<"1"," ","C","o","r","i","n","t","h","i","a","n","s">>, fr |-> <<"1"," ","C","o","r","i","n","t","h","i","e","n","s">>],
   aliases |-> {<<"1","c","o","r">>, <<"1","c","o","r","i","n","t","h","i","a","n","s">>}] >>

\* lookup by id or alias, case-insensitive, exact id first, then aliases;
\* the result is <<book>> or <<>> (undefined)
getBookByIdOrAlias(idOrAlias) ==
  LET key == toLowerCase(idOrAlias)
      byId == {i \in DOMAIN BOOKS : BOOKS[i].id = key}
      byAlias == {i \in DOMAIN BOOKS : key \in BOOKS[i].aliases}
  IN IF byId # {} THEN <<BOOKS[CHOOSE i \in byId : \A j \in byId : i <= j]>>
     ELSE IF byAlias # {}
       THEN <<BOOKS[CHOOSE i \in byAlias : \A j \in byAlias : i <= j]>>
     ELSE <<>>

DEFAULT_LANGUAGE == <<"e","n">>

(***************************************************************************)
(* Reference parser (services/reference-parser.ts).                        *)
(***************************************************************************)
AllDigits(s) == s # <<>> /\ \A i \in DOMAIN s : IsDigit(s[i])
AllLowerAlnum(s) == s # <<>> /\ \A i \in DOMAIN s : IsLowerAlnum(s[i])

\* normalized.match(/^([a-z0-9]+)\.(\d+)\.(\d+)(?:-(\d+))?$/)
\* No class of the pattern admits "." or "-", so the string matches exactly
\* when it splits on "." into three parts, the first alphanumeric, the
\* second digits, the third digits or digits "-" digits.
\* A match is <<bookId, chapterStr, verseStartStr, verseEndStr>>, where an
\* unmatched fourth group is Absent; no match is <<>>.
matchReference(normalized) ==
  LET parts == split(normalized, ".")
  IN IF Len(parts) # 3 THEN <<>>
     ELSE LET vparts == split(parts[3], "-")
          IN IF /\ AllLowerAlnum(parts[1])
                /\ AllDigits(parts[2])
                /\ Len(vparts) \in {1, 2}
                /\ \A i \in DOMAIN vparts : AllDigits(vparts[i])
               THEN <<parts[1], parts[2], vparts[1],
                      IF Len(vparts) = 2 THEN vparts[2] ELSE Absent>>
               ELSE <<>>

\* variant: the upper bound of the chapter is not checked
InvalidChapter_NoUpperBound(chapter, book) == chapter < 1

\* variant: chapter 0 is let through
InvalidChapter_ZeroAllowed(chapter, book) == chapter < 0 \/ chapter > book.chapters

\* chapter < 1 || chapter > book.chapters
InvalidChapter(chapter, book) == chapter < 1 \/ chapter > book.chapters

\* variant: the end verse is tested for truthiness, so an end of 0 is let through
InvalidRange_Truthy(verseStart, verseEnd) == TruthyNum(verseEnd) /\ verseEnd < verseStart

\* verseEnd !== undefined && verseEnd < verseStart
InvalidRange(verseStart, verseEnd) == verseEnd # Undefined /\ verseEnd < verseStart

ParseError(msg) == [success |-> FALSE, error |-> msg]

parseReference(ref) ==
  LET normalized == trim(toLowerCase(ref))
      match == matchReference(normalized)
  IN IF match = <<>>
       THEN ParseError(<<"Invalid reference format: \"">> \o ref \o
              <<"\". Expected format: book.chapter.verse (e.g., gen.1.1 or jhn.3.16-17)">>)
     ELSE
       LET bookId == match[1]
           found == getBookByIdOrAlias(bookId)
       IN IF found = <<>>
            THEN ParseError(<<"Unknown book", ": \"">> \o bookId \o
                   <<"\". Use standard abbreviations like gen, exo, mat, jhn, etc.">>)
          ELSE
            LET book == found[1]
                chapter == parseInt(match[2])
                verseStart == parseInt(match[3])
                verseEnd == IF TruthyStr(match[4]) THEN parseInt(match[4])
                            ELSE Undefined
            IN IF InvalidChapter(chapter, book)
                 THEN ParseError(<<"Invalid chapter", " ">> \o numToString(chapter) \o
                        <<" for ">> \o book.names.en \o <<". Valid range: 1-">> \o
                        numToString(book.chapters))
               ELSE IF InvalidRange(verseStart, verseEnd)
                 THEN ParseError(<<"Invalid verse range: ">> \o numToString(verseStart) \o
                        <<"-">> \o numToString(verseEnd) \o
                        <<". ", "End verse must be >= start verse", ".">>)
               ELSE [success |-> TRUE,
                     reference |-> [book |-> book.id, chapter |-> chapter,
                                    verseStart |-> verseStart, verseEnd |-> verseEnd],
                     book |-> book]

\* ref.verseEnd && ref.verseEnd !== ref.verseStart
HasRangeSuffix(ref) == TruthyNum(ref.verseEnd) /\ ref.verseEnd # ref.verseStart

formatReference(ref, book, language) ==
  LET bookName == IF language = <<"f","r">> THEN book.names.fr ELSE book.names.en
  IN IF HasRangeSuffix(ref)
       THEN bookName \o <<" ">> \o numToString(ref.chapter) \o <<":">> \o
            numToString(ref.verseStart) \o <<"-">> \o numToString(ref.verseEnd)
       ELSE bookName \o <<" ">> \o numToString(ref.chapter) \o <<":">> \o
            numToString(ref.verseStart)

\* .map((r) => r.trim())
TrimAll(parts) == [i \in DOMAIN parts |-> trim(parts[i])]

\* variant: empty segments are dropped before parsing
parseMultipleReferences_DropEmpty(refs) ==
  LET NonEmpty(part) == part # <<>>
      parts == SelectSeq(TrimAll(split(refs, ",")), NonEmpty)
  IN [i \in DOMAIN parts |-> parseReference(parts[i])]

\* variant: parsing stops at the first segment that fails
parseMultipleReferences_StopAtFailure(refs) ==
  LET parts == TrimAll(split(refs, ","))
      Fails(i) == ~parseReference(parts[i]).success
      last == IF \E i \in DOMAIN parts : Fails(i)
                THEN CHOOSE i \in DOMAIN parts :
                       Fails(i) /\ \A j \in 1..(i - 1) : ~Fails(j)
              ELSE Len(parts)
  IN [i \in 1..last |-> parseReference(parts[i])]

parseMultipleReferences(refs) ==
  LET parts == TrimAll(split(refs, ","))
  IN [i \in DOMAIN parts |-> parseReference(parts[i])]

(***************************************************************************)
(* The persisted store: table translations(id, name, language, status,     *)
(* filename) and table verses(translation_id, book, chapter, verse, text), *)
(* each a sequence of rows in rowid order.                                 *)
(***************************************************************************)
EN == <<"e","n">>
FR == <<"f","r">>
EN_KJV == <<"e","n","-","k","j","v">>
FR_LSG == <<"f","r","-","l","s","g">>

TranslationRows == <<
  [id |-> EN_KJV, name |-> <<"K","i","n","g"," ","J","a","m","e","s"," ","V","e","r","s","i","o","n">>, language |-> EN,
   status |-> "complete", filename |-> "EnglishKJBible.xml"],
  [id |-> FR_LSG, name |-> <<"L","o","u","i","s"," ","S","e","g","o","n","d">>, language |-> FR,
   status |-> "complete", filename |-> "FrenchBible.xml"] >>

VerseRows == <<
  [translation_id |-> EN_KJV, book |-> 43, chapter |-> 3, verse |-> 1,
   text |-> <<"G","o","d"," ","l","o","v","e","d">>],
  [translation_id |-> EN_KJV, book |-> 43, chapter |-> 3, verse |-> 3,
   text |-> <<"t","h","e"," ","L","o","r","d"," ","i","s"," ","g","o","o","d",".">>],
  [translation_id |-> FR_LSG, book |-> 43, chapter |-> 3, verse |-> 1,
   text |-> <<"D","i","e","u">>] >>

\* the rows of a table whose rowid is in keep, in rowid order
RECURSIVE SelectRows(_, _, _)
SelectRows(rows, keep, i) ==
  IF i > Len(rows) THEN <<>>
  ELSE (IF i \in keep THEN <<rows[i]>> ELSE <<>>) \o SelectRows(rows, keep, i + 1)

\* the stores an import can have produced: any translations, and any verses
\* of these translations (a verse row references an existing translation)
Stores ==
  {[translations |-> SelectRows(TranslationRows, kt, 1),
    verses |-> SelectRows(VerseRows, kv, 1)] :
     <<kt, kv>> \in {p \in (SUBSET DOMAIN TranslationRows) \X (SUBSET DOMAIN VerseRows) :
        \A v \in p[2] : \E t \in p[1] :
           TranslationRows[t].id = VerseRows[v].translation_id}}

(***************************************************************************)
(* Query layer (services/database.ts, services/bible-loader.ts).           *)
(***************************************************************************)
\* byte order of the characters that occur in names (BINARY collation)
CharOrder == <<" ", "%", "-", ".">> \o DigitChars \o UpperChars \o <<"_">> \o LowerChars

CharRank(c) == CHOOSE i \in DOMAIN CharOrder : CharOrder[i] = c

RECURSIVE StrLess(_, _)
StrLess(a, b) ==
  IF b = <<>> THEN FALSE
  ELSE IF a = <<>> THEN TRUE
  ELSE IF Head(a) = Head(b) THEN StrLess(Tail(a), Tail(b))
  ELSE CharRank(Head(a)) < CharRank(Head(b))

\* ORDER BY: rows in ascending order; rows that compare equal keep table order
OrderBy(rows, Less(_, _)) ==
  LET pos(i) == 1 + Cardinality({j \in DOMAIN rows :
                     \/ Less(rows[j], rows[i])
                     \/ (~Less(rows[i], rows[j]) /\ j < i)})
  IN [k \in DOMAIN rows |-> rows[CHOOSE i \in DOMAIN rows : pos(i) = k]]

\* WHERE: the rows that satisfy the condition, in table order
Where(rows, Cond(_)) == SelectSeq(rows, Cond)

\* variant: the rows come in table order
getTranslationsByLanguage_TableOrder(trs, language) ==
  LET Cond(r) == r.language = language
  IN Where(trs, Cond)

\* SELECT ... FROM translations WHERE language = ? ORDER BY name
getTranslationsByLanguage(trs, language) ==
  LET Cond(r) == r.language = language
      Less(a, b) == StrLess(a.name, b.name)
  IN OrderBy(Where(trs, Cond), Less)

\* SELECT ... FROM translations WHERE id = ?   (<<row>> or <<>>)
getTranslationById(trs, id) ==
  LET Cond(r) == r.id = id
      rows == Where(trs, Cond)
  IN IF rows = <<>> THEN <<>> ELSE <<rows[1]>>

rowToMeta(row) ==
  [id |-> row.id, name |-> row.name, language |-> row.language,
   status |-> row.status, filename |-> row.filename]

getTranslationMeta(trs, id) ==
  LET row == getTranslationById(trs, id)
  IN IF row = <<>> THEN <<>> ELSE <<rowToMeta(row[1])>>

\* the curated default id of a language, <<>> when there is none
DefaultIds(language) ==
  IF language = EN THEN <<EN_KJV>>
  ELSE IF language = FR THEN <<FR_LSG>>
  ELSE <<>>

getDefaultTranslation(trs, language) ==
  LET rows == getTranslationsByLanguage(trs, language)
      defaultId == DefaultIds(language)
      Cond(r) == defaultId # <<>> /\ r.id = defaultId[1]
      found == Where(rows, Cond)
  IN IF rows = <<>> THEN <<>>
     ELSE IF found # <<>> THEN <<rowToMeta(found[1])>>
     ELSE <<rowToMeta(rows[1])>>

\* variant: the lookup does not restrict the translation
getVerseFromDb_AnyTranslation(vs, translationId, bookNumber, chapterNumber, verseNumber) ==
  LET Cond(r) == /\ r.book = bookNumber
                 /\ r.chapter = chapterNumber
                 /\ r.verse = verseNumber
      rows == SelectSeq(vs, Cond)
  IN IF rows = <<>> THEN <<>>
     ELSE <<[number |-> rows[1].verse, text |-> rows[1].text]>>

\* SELECT verse, text FROM verses WHERE translation_id = ? AND book = ?
\*   AND chapter = ? AND verse = ?          (<<verse>> or <<>>)
getVerseFromDb(vs, translationId, bookNumber, chapterNumber, verseNumber) ==
  LET Cond(r) == /\ r.translation_id = translationId
                 /\ r.book = bookNumber
                 /\ r.chapter = chapterNumber
                 /\ r.verse = verseNumber
      rows == Where(vs, Cond)
  IN IF rows = <<>> THEN <<>>
     ELSE <<[number |-> rows[1].verse, text |-> rows[1].text]>>

\* variant: the range has no lower end
getVerseRangeFromDb_NoLowerEnd(vs, translationId, bookNumber, chapterNumber, startVerse, endVerse) ==
  LET Cond(r) == /\ r.translation_id = translationId
                 /\ r.book = bookNumber
                 /\ r.chapter = chapterNumber
                 /\ r.verse <= endVerse
      Less(a, b) == a.verse < b.verse
      rows == OrderBy(Where(vs, Cond), Less)
  IN [i \in DOMAIN rows |-> [number |-> rows[i].verse, text |-> rows[i].text]]

\* ... AND verse BETWEEN ? AND ? ORDER BY verse
getVerseRangeFromDb(vs, translationId, bookNumber, chapterNumber, startVerse, endVerse) ==
  LET Cond(r) == /\ r.translation_id = translationId
                 /\ r.book = bookNumber
                 /\ r.chapter = chapterNumber
                 /\ r.verse >= startVerse
                 /\ r.verse <= endVerse
      Less(a, b) == a.verse < b.verse
      rows == OrderBy(Where(vs, Cond), Less)
  IN [i \in DOMAIN rows |-> [number |-> rows[i].verse, text |-> rows[i].text]]

\* text LIKE pattern: "%" matches any run of characters, "_" any one
\* character, every other character itself, ASCII letters case-insensitively
RECURSIVE Like(_, _)
Like(pattern, text) ==
  IF pattern = <<>> THEN text = <<>>
  ELSE IF Head(pattern) = "%"
    THEN Like(Tail(pattern), text) \/ (text # <<>> /\ Like(pattern, Tail(text)))
  ELSE IF text = <<>> THEN FALSE
  ELSE IF Head(pattern) = "_" THEN Like(Tail(pattern), Tail(text))
  ELSE LowerChar(Head(pattern)) = LowerChar(Head(text)) /\ Like(Tail(pattern), Tail(text))

\* variant: the offset is not applied
LimitOffset_OffsetIgnored(rows, limit, offset) ==
  SubSeq(rows, 1, IF limit < 0 \/ limit > Len(rows) THEN Len(rows) ELSE limit)

\* LIMIT ? OFFSET ? (a negative limit is no limit, a negative offset is 0)
LimitOffset(rows, limit, offset) ==
  LET from == (IF offset < 0 THEN 0 ELSE offset) + 1
      to == IF limit < 0 \/ from + limit - 1 > Len(rows) THEN Len(rows)
            ELSE from + limit - 1
  IN SubSeq(rows, from, to)

\* variant: a blank query is searched like any other
searchVerses_NoBlankGuard(vs, translationId, query, limit, offset) ==
  LET trimmed == trim(query)
      pattern == <<"%">> \o trimmed \o <<"%">>
      Cond(r) == r.translation_id = translationId /\ Like(pattern, r.text)
      rows == Where(vs, Cond)
      page == LimitOffset(rows, limit, offset)
  IN [results |-> [i \in DOMAIN page |->
                     [book |-> page[i].book, chapter |-> page[i].chapter,
                      verse |-> page[i].verse, text |-> page[i].text]],
      total |-> Len(rows)]

\* variant: the total counts the rows of the page
searchVerses_TotalOfPage(vs, translationId, query, limit, offset) ==
  LET trimmed == trim(query)
      pattern == <<"%">> \o trimmed \o <<"%">>
      Cond(r) == r.translation_id = translationId /\ Like(pattern, r.text)
      rows == Where(vs, Cond)
      page == LimitOffset(rows, limit, offset)
  IN IF trimmed = <<>> THEN [results |-> <<>>, total |-> 0]
     ELSE [results |-> [i \in DOMAIN page |->
                          [book |-> page[i].book, chapter |-> page[i].chapter,
                           verse |-> page[i].verse, text |-> page[i].text]],
           total |-> Len(page)]

searchVerses(vs, translationId, query, limit, offset) ==
  LET trimmed == trim(query)
      pattern == <<"%">> \o trimmed \o <<"%">>
      Cond(r) == r.translation_id = translationId /\ Like(pattern, r.text)
      rows == Where(vs, Cond)
      page == LimitOffset(rows, limit, offset)
  IN IF trimmed = <<>> THEN [results |-> <<>>, total |-> 0]
     ELSE [results |-> [i \in DOMAIN page |->
                          [book |-> page[i].book, chapter |-> page[i].chapter,
                           verse |-> page[i].verse, text |-> page[i].text]],
           total |-> Len(rows)]

(***************************************************************************)
(* HTTP handlers of routes/verses.ts.  A response is [status, body].       *)
(***************************************************************************)
ErrorResponse(status, code, message) ==
  [status |-> status, body |-> [error |-> [code |-> code, message |-> message]]]

\* translationId ? getTranslationMeta(translationId) : getDefaultTranslation(language)
ResolveTranslation(trs, translationId, language) ==
  IF TruthyStr(translationId) THEN getTranslationMeta(trs, translationId)
  ELSE getDefaultTranslation(trs, language)

TranslationNotFound(translationId, language) ==
  ErrorResponse(404, "TRANSLATION_NOT_FOUND",
    <<"Translation '">> \o (IF translationId # Absent THEN translationId ELSE language)
      \o <<"' not found">>)

BookName(book, language) == IF language = FR THEN book.names.fr ELSE book.names.en

\* variant: any end verse makes the request a range request
IsRangeRequest_AnyEnd(ref) == TruthyNum(ref.verseEnd)

\* parsed.reference.verseEnd && parsed.reference.verseEnd !== parsed.reference.verseStart
IsRangeRequest(ref) == TruthyNum(ref.verseEnd) /\ ref.verseEnd # ref.verseStart

\* variant: the translation is resolved before the reference is checked
getVerseRoute_TranslationFirst(trs, vs, ref, langParam, translationId) ==
  LET language == IF langParam # Absent THEN langParam ELSE DEFAULT_LANGUAGE
      p == parseReference(ref)
      translation == ResolveTranslation(trs, translationId, language)
  IN IF translation = <<>> THEN TranslationNotFound(translationId, language)
     ELSE IF ~p.success THEN ErrorResponse(400, "INVALID_REFERENCE", p.error)
     ELSE IF IsRangeRequest(p.reference)
       THEN LET versesInRange == getVerseRangeFromDb(vs, translation[1].id, p.book.number,
                                   p.reference.chapter, p.reference.verseStart,
                                   p.reference.verseEnd)
            IN IF Len(versesInRange) = 0
                 THEN ErrorResponse(404, "VERSE_NOT_FOUND",
                        <<"Verses ">> \o numToString(p.reference.verseStart) \o <<"-">> \o
                        numToString(p.reference.verseEnd) \o <<" not found">>)
               ELSE [status |-> 200,
                     body |-> [reference |-> formatReference(p.reference, p.book, language),
                               translation |-> translation[1].id,
                               language |-> language,
                               book |-> [id |-> p.book.id, name |-> BookName(p.book, language)],
                               chapter |-> p.reference.chapter,
                               verses |-> versesInRange]]
     ELSE LET verse == getVerseFromDb(vs, translation[1].id, p.book.number,
                          p.reference.chapter, p.reference.verseStart)
          IN IF verse = <<>>
               THEN ErrorResponse(404, "VERSE_NOT_FOUND",
                      <<"Verse ">> \o numToString(p.reference.verseStart) \o <<" not found">>)
             ELSE [status |-> 200,
                   body |-> [reference |-> formatReference(p.reference, p.book, language),
                             translation |-> translation[1].id,
                             language |-> language,
                             book |-> [id |-> p.book.id, name |-> BookName(p.book, language)],
                             chapter |-> p.reference.chapter,
                             verse |-> verse[1].number,
                             text |-> verse[1].text]]

\* GET /verses/{ref}
getVerseRoute(trs, vs, ref, langParam, translationId) ==
  LET language == IF langParam # Absent THEN langParam ELSE DEFAULT_LANGUAGE
      p == parseReference(ref)
      translation == ResolveTranslation(trs, translationId, language)
  IN IF ~p.success THEN ErrorResponse(400, "INVALID_REFERENCE", p.error)
     ELSE IF translation = <<>> THEN TranslationNotFound(translationId, language)
     ELSE IF IsRangeRequest(p.reference)
       THEN LET versesInRange == getVerseRangeFromDb(vs, translation[1].id, p.book.number,
                                   p.reference.chapter, p.reference.verseStart,
                                   p.reference.verseEnd)
            IN IF Len(versesInRange) = 0
                 THEN ErrorResponse(404, "VERSE_NOT_FOUND",
                        <<"Verses ">> \o numToString(p.reference.verseStart) \o <<"-">> \o
                        numToString(p.reference.verseEnd) \o <<" not found">>)
               ELSE [status |-> 200,
                     body |-> [reference |-> formatReference(p.reference, p.book, language),
                               translation |-> translation[1].id,
                               language |-> language,
                               book |-> [id |-> p.book.id, name |-> BookName(p.book, language)],
                               chapter |-> p.reference.chapter,
                               verses |-> versesInRange]]
     ELSE LET verse == getVerseFromDb(vs, translation[1].id, p.book.number,
                          p.reference.chapter, p.reference.verseStart)
          IN IF verse = <<>>
               THEN ErrorResponse(404, "VERSE_NOT_FOUND",
                      <<"Verse ">> \o numToString(p.reference.verseStart) \o <<" not found">>)
             ELSE [status |-> 200,
                   body |-> [reference |-> formatReference(p.reference, p.book, language),
                             translation |-> translation[1].id,
                             language |-> language,
                             book |-> [id |-> p.book.id, name |-> BookName(p.book, language)],
                             chapter |-> p.reference.chapter,
                             verse |-> verse[1].number,
                             text |-> verse[1].text]]

\* variant: a reference without a stored verse ends the request with 404,
\* as the single-verse route does
RECURSIVE MultipleVersesLoop_MissingVerseFails(_, _, _, _, _)
MultipleVersesLoop_MissingVerseFails(vs, translation, language, parsedRefs, results) ==
  IF parsedRefs = <<>>
    THEN [status |-> 200,
          body |-> [translation |-> translation.id, language |-> language,
                    verses |-> results]]
  ELSE LET p == Head(parsedRefs)
       IN IF ~p.success THEN ErrorResponse(400, "INVALID_REFERENCE", p.error)
          ELSE LET verse == getVerseFromDb(vs, translation.id, p.book.number,
                               p.reference.chapter, p.reference.verseStart)
               IN IF verse = <<>>
                    THEN ErrorResponse(404, "VERSE_NOT_FOUND",
                           <<"Verse ">> \o numToString(p.reference.verseStart) \o <<" not found">>)
                  ELSE MultipleVersesLoop_MissingVerseFails(vs, translation, language,
                         Tail(parsedRefs),
                         Append(results,
                           [reference |-> formatReference(p.reference, p.book, language),
                            book |-> BookName(p.book, language),
                            chapter |-> p.reference.chapter,
                            verse |-> verse[1].number,
                            text |-> verse[1].text]))

\* the loop over parsedRefs of GET /verses?refs=...: the first failure ends
\* the request, a reference without a stored verse is passed over
RECURSIVE MultipleVersesLoop(_, _, _, _, _)
MultipleVersesLoop(vs, translation, language, parsedRefs, results) ==
  IF parsedRefs = <<>>
    THEN [status |-> 200,
          body |-> [translation |-> translation.id, language |-> language,
                    verses |-> results]]
  ELSE LET p == Head(parsedRefs)
       IN IF ~p.success THEN ErrorResponse(400, "INVALID_REFERENCE", p.error)
          ELSE LET verse == getVerseFromDb(vs, translation.id, p.book.number,
                               p.reference.chapter, p.reference.verseStart)
               IN IF verse = <<>>
                    THEN MultipleVersesLoop(vs, translation, language, Tail(parsedRefs), results)
                  ELSE MultipleVersesLoop(vs, translation, language, Tail(parsedRefs),
                         Append(results,
                           [reference |-> formatReference(p.reference, p.book, language),
                            book |-> BookName(p.book, language),
                            chapter |-> p.reference.chapter,
                            verse |-> verse[1].number,
                            text |-> verse[1].text]))

\* GET /verses?refs=...  (refs is a non-empty string: the schema rejects the rest)
getMultipleVersesRoute(trs, vs, refs, langParam, translationId) ==
  LET language == IF langParam # Absent THEN langParam ELSE DEFAULT_LANGUAGE
      translation == ResolveTranslation(trs, translationId, language)
  IN IF translation = <<>> THEN TranslationNotFound(translationId, language)
     ELSE MultipleVersesLoop(vs, translation[1], language, parseMultipleReferences(refs), <<>>)

\* the loop over translationIds of GET /verses/{ref}/compare?translations=...
RECURSIVE CompareTranslationsLoop(_, _, _, _, _)
CompareTranslationsLoop(trs, vs, p, translationIds, comparisons) ==
  IF translationIds = <<>> THEN comparisons
  ELSE LET transId == Head(translationIds)
           translation == getTranslationMeta(trs, transId)
           verse == getVerseFromDb(vs, transId, p.book.number, p.reference.chapter,
                                   p.reference.verseStart)
       IN IF translation = <<>> \/ verse = <<>>
            THEN CompareTranslationsLoop(trs, vs, p, Tail(translationIds), comparisons)
          ELSE CompareTranslationsLoop(trs, vs, p, Tail(translationIds),
                 Append(comparisons,
                   [language |-> translation[1].language,
                    translation |-> translation[1].id,
                    translationName |-> translation[1].name,
                    bookName |-> BookName(p.book, translation[1].language),
                    text |-> verse[1].text]))

\* the loop over langs of GET /verses/{ref}/compare?languages=...
RECURSIVE CompareLanguagesLoop(_, _, _, _, _)
CompareLanguagesLoop(trs, vs, p, langs, comparisons) ==
  IF langs = <<>> THEN comparisons
  ELSE LET lang == Head(langs)
           translation == getDefaultTranslation(trs, lang)
           verse == IF translation = <<>> THEN <<>>
                    ELSE getVerseFromDb(vs, translation[1].id, p.book.number,
                                        p.reference.chapter, p.reference.verseStart)
       IN IF translation = <<>> \/ verse = <<>>
            THEN CompareLanguagesLoop(trs, vs, p, Tail(langs), comparisons)
          ELSE CompareLanguagesLoop(trs, vs, p, Tail(langs),
                 Append(comparisons,
                   [language |-> lang,
                    translation |-> translation[1].id,
                    translationName |-> translation[1].name,
                    bookName |-> BookName(p.book, lang),
                    text |-> verse[1].text]))

\* GET /verses/{ref}/compare
compareVerseRoute(trs, vs, ref, translationsParam, languagesParam) ==
  LET p == parseReference(ref)
      Ok(comparisons) ==
        [status |-> 200,
         body |-> [reference |-> formatReference(p.reference, p.book, EN),
                   book |-> [id |-> p.book.id],
                   chapter |-> p.reference.chapter,
                   verse |-> p.reference.verseStart,
                   comparisons |-> comparisons]]
  IN IF ~p.success THEN ErrorResponse(400, "INVALID_REFERENCE", p.error)
     ELSE IF TruthyStr(translationsParam)
       THEN Ok(CompareTranslationsLoop(trs, vs, p, TrimAll(split(translationsParam, ",")), <<>>))
     ELSE IF TruthyStr(languagesParam)
       THEN Ok(CompareLanguagesLoop(trs, vs, p, TrimAll(split(languagesParam, ",")), <<>>))
     ELSE ErrorResponse(400, "MISSING_PARAMETER",
            <<"Either translations or languages query parameter is required">>)

(***************************************************************************)
(* Numbers read from request strings.                                      *)
(***************************************************************************)
\* the number NaN (no request in the model reaches a magnitude near it)
NaN == -1000000

\* isNaN(n)
isNaN(n) == n = NaN

\* the longest prefix of decimal digits
RECURSIVE DigitPrefix(_)
DigitPrefix(s) ==
  IF s # <<>> /\ IsDigit(Head(s)) THEN <<Head(s)>> \o DigitPrefix(Tail(s)) ELSE <<>>

\* parseInt(str, 10) on any string: leading whitespace is skipped, an optional
\* sign is read, then the longest run of digits; NaN when there is no digit
parseIntAny(str) ==
  LET s == trimStart(str)
      signed == s # <<>> /\ Head(s) \in {"-", "+"}
      digits == DigitPrefix(IF signed THEN Tail(s) ELSE s)
  IN IF digits = <<>> THEN NaN
     ELSE IF signed /\ Head(s) = "-" THEN 0 - parseInt(digits)
     ELSE parseInt(digits)

\* Math.min(a, b): NaN when an argument is NaN
MathMin(a, b) == IF isNaN(a) \/ isNaN(b) THEN NaN ELSE IF a < b THEN a ELSE b

\* template interpolation `${n}` of any number
numberToString(n) ==
  IF isNaN(n) THEN <<"N","a","N">>
  ELSE IF n < 0 THEN <<"-">> \o numToString(0 - n)
  ELSE numToString(n)

(***************************************************************************)
(* Highlighting (routes/search.ts): the query is escaped, compiled to a    *)
(* regular expression with flags "gi" and every match is wrapped.          *)
(***************************************************************************)
RegexSpecials == {".", "*", "+", "?", "^", "$", "{", "}", "(", ")", "|", "[", "]", "\\"}

\* variant: the query is used as a pattern without escaping
escapeRegex_None(str) == str

\* str.replace(/[.*+?^${}()|[\]\\]/g, "\\$&")
RECURSIVE escapeRegex(_)
escapeRegex(str) ==
  IF str = <<>> THEN <<>>
  ELSE (IF Head(str) \in RegexSpecials THEN <<"\\", Head(str)>> ELSE <<Head(str)>>)
       \o escapeRegex(Tail(str))

\* new RegExp(source): the atoms of the pattern.  "\c" is the character c,
\* "." any character, any other character itself; "*" after an atom repeats it
RECURSIVE RegExpAtoms(_)
RegExpAtoms(source) ==
  IF source = <<>> THEN <<>>
  ELSE LET escaped == Head(source) = "\\" /\ Len(source) >= 2
           ch == IF escaped THEN source[2] ELSE Head(source)
           rest == IF escaped THEN Tail(Tail(source)) ELSE Tail(source)
           star == rest # <<>> /\ Head(rest) = "*"
       IN <<[any |-> ~escaped /\ ch = ".", ch |-> ch, star |-> star]>>
          \o RegExpAtoms(IF star THEN Tail(rest) ELSE rest)

\* the atom matches the character (flag i: ASCII letters in either case)
AtomMatches(atom, c) == atom.any \/ LowerChar(atom.ch) = LowerChar(c)

\* how many characters from position i on the atom matches in a row
RECURSIVE RunLength(_, _, _)
RunLength(atom, text, i) ==
  IF i <= Len(text) /\ AtomMatches(atom, text[i]) THEN 1 + RunLength(atom, text, i + 1)
  ELSE 0

\* the position after the match of the atoms that starts at position i, as a
\* backtracking matcher finds it (a repetition takes as much as it can first);
\* 0 when nothing matches at i
RECURSIVE MatchEnd(_, _, _)
RECURSIVE StarMatchEnd(_, _, _, _)
MatchEnd(atoms, text, i) ==
  IF atoms = <<>> THEN i
  ELSE IF Head(atoms).star
    THEN StarMatchEnd(atoms, text, i, RunLength(Head(atoms), text, i))
  ELSE IF i <= Len(text) /\ AtomMatches(Head(atoms), text[i])
    THEN MatchEnd(Tail(atoms), text, i + 1)
  ELSE 0

StarMatchEnd(atoms, text, i, n) ==
  LET e == MatchEnd(Tail(atoms), text, i + n)
  IN IF e # 0 THEN e
     ELSE IF n = 0 THEN 0
     ELSE StarMatchEnd(atoms, text, i, n - 1)

\* text.replace(regex, "<em>$1</em>") with flag g, from position i on: matches
\* are taken left to right without overlap; an empty match is wrapped too and
\* the scan moves on by one character
\* variant: the replacement is "<em></em>", without the matched text
RECURSIVE ReplaceAll_NoCapture(_, _, _)
ReplaceAll_NoCapture(atoms, text, i) ==
  LET e == MatchEnd(atoms, text, i)
  IN IF i > Len(text) THEN (IF e = i THEN <<"<em>", "</em>">> ELSE <<>>)
     ELSE IF e = 0 THEN <<text[i]>> \o ReplaceAll_NoCapture(atoms, text, i + 1)
     ELSE IF e = i
       THEN <<"<em>", "</em>", text[i]>> \o ReplaceAll_NoCapture(atoms, text, i + 1)
     ELSE <<"<em>", "</em>">> \o ReplaceAll_NoCapture(atoms, text, e)

RECURSIVE ReplaceAll(_, _, _)
ReplaceAll(atoms, text, i) ==
  LET e == MatchEnd(atoms, text, i)
  IN IF i > Len(text) THEN (IF e = i THEN <<"<em>", "</em>">> ELSE <<>>)
     ELSE IF e = 0 THEN <<text[i]>> \o ReplaceAll(atoms, text, i + 1)
     ELSE IF e = i THEN <<"<em>", "</em>", text[i]>> \o ReplaceAll(atoms, text, i + 1)
     ELSE <<"<em>">> \o SubSeq(text, i, e - 1) \o <<"</em>">> \o ReplaceAll(atoms, text, e)

highlightMatches(text, query) ==
  ReplaceAll(RegExpAtoms(escapeRegex(query)), text, 1)

(***************************************************************************)
(* GET /search (routes/search.ts) and the application's fallback handlers  *)
(* (index.ts).  A query parameter is Absent, a string, or Repeated when    *)
(* the URL carries the key more than once (the validator then sees an      *)
(* array).                                                                 *)
(***************************************************************************)
Repeated == <<"array">>

\* getBookByNumber of the catalog: <<book>> or <<>>
getBookByNumber(number) ==
  LET found == {i \in DOMAIN BOOKS : BOOKS[i].number = number}
  IN IF found = {} THEN <<>> ELSE <<BOOKS[CHOOSE i \in found : TRUE]>>

\* z.string().optional(): the issues of one optional string parameter
OptionalStringIssues(path, value) ==
  IF value = Repeated THEN {[path |-> path, code |-> "invalid_type"]} ELSE {}

\* z.string().min(1): the issues of one required, non-empty string parameter
RequiredStringIssues(path, value) ==
  IF value = Absent \/ value = Repeated THEN {[path |-> path, code |-> "invalid_type"]}
  ELSE IF value = <<>> THEN {[path |-> path, code |-> "too_small"]}
  ELSE {}

\* SearchQuerySchema.safeParse: the issues of the query of GET /search
SearchQueryIssues(query) ==
  RequiredStringIssues("q", query.q)
  \cup OptionalStringIssues("language", query.language)
  \cup OptionalStringIssues("translation", query.translation)
  \cup OptionalStringIssues("limit", query.limit)
  \cup OptionalStringIssues("offset", query.offset)

\* defaultHook of the search router, called with a failed validation
searchDefaultHook(issues) ==
  LET isMissingQ == \E i \in issues : i.path = "q" /\ i.code = "too_small"
      isInvalidType == \E i \in issues : i.path = "q" /\ i.code = "invalid_type"
  IN IF isMissingQ \/ isInvalidType
       THEN ErrorResponse(400, "MISSING_QUERY", <<"Missing q query parameter">>)
     ELSE ErrorResponse(400, "INVALID_QUERY", <<"result.error.message">>)

\* RefsQuerySchema.safeParse: the issues of the query of GET /verses
RefsQueryIssues(query) ==
  RequiredStringIssues("refs", query.refs)
  \cup OptionalStringIssues("language", query.language)
  \cup OptionalStringIssues("translation", query.translation)

\* defaultHook of the verses router, called with a failed validation
versesDefaultHook(issues) ==
  LET isMissingRefs == \E i \in issues :
                         i.path = "refs" /\ (i.code = "too_small" \/ i.code = "invalid_type")
  IN IF isMissingRefs
       THEN ErrorResponse(400, "MISSING_REFS", <<"refs parameter is required">>)
     ELSE ErrorResponse(400, "INVALID_QUERY", <<"result.error.message">>)

\* app.notFound
notFound == ErrorResponse(404, "NOT_FOUND", <<"Endpoint not found">>)

\* variant: the failure is passed on as it was thrown
onError_RawError == ErrorResponse(500, "SQLITE_MISMATCH", <<"datatype mismatch">>)

\* app.onError
onError == ErrorResponse(500, "INTERNAL_ERROR", <<"An internal server error occurred">>)

\* variant: the limit is not capped
SearchLimit_NoCap(limitStr) == IF TruthyStr(limitStr) THEN parseIntAny(limitStr) ELSE 10

\* Math.min(limitStr ? parseInt(limitStr, 10) : 10, 100)
SearchLimit(limitStr) == MathMin(IF TruthyStr(limitStr) THEN parseIntAny(limitStr) ELSE 10, 100)

\* offsetStr ? parseInt(offsetStr, 10) : 0
SearchOffset(offsetStr) == IF TruthyStr(offsetStr) THEN parseIntAny(offsetStr) ELSE 0

\* the statement LIMIT ? OFFSET ? fails when a bound value is NaN (it is bound
\* as NULL, which is no integer); the blank query returns before the statement
searchVersesThrows(query, limit, offset) ==
  trim(query) # <<>> /\ (isNaN(limit) \/ isNaN(offset))

\* the handler of GET /search, called with a valid query
searchRoute(trs, vs, query) ==
  LET language == IF query.language # Absent THEN query.language ELSE DEFAULT_LANGUAGE
      limit == SearchLimit(query.limit)
      offset == SearchOffset(query.offset)
      translation == ResolveTranslation(trs, query.translation, language)
      found == searchVerses(vs, translation[1].id, query.q, limit, offset)
      Result(row) ==
        LET bookData == getBookByNumber(row.book)
            bookName == IF bookData # <<>> THEN BookName(bookData[1], language)
                        ELSE <<"Book ">> \o numberToString(row.book)
        IN [reference |-> bookName \o <<" ">> \o numberToString(row.chapter) \o <<":">>
                          \o numberToString(row.verse),
            text |-> row.text,
            highlight |-> highlightMatches(row.text, query.q)]
  IN IF translation = <<>> THEN TranslationNotFound(query.translation, language)
     ELSE IF searchVersesThrows(query.q, limit, offset) THEN onError
     ELSE [status |-> 200,
           body |-> [query |-> query.q,
                     translation |-> translation[1].id,
                     language |-> language,
                     total |-> found.total,
                     limit |-> limit,
                     offset |-> offset,
                     results |-> [i \in DOMAIN found.results |-> Result(found.results[i])]]]

\* GET /search: validation, then the hook or the handler
search(trs, vs, query) ==
  IF SearchQueryIssues(query) # {} THEN searchDefaultHook(SearchQueryIssues(query))
  ELSE searchRoute(trs, vs, query)

(***************************************************************************)
(* GET /books/:id/chapters/:chapter (routes/books.ts).                     *)
(***************************************************************************)
\* SELECT verse, text FROM verses WHERE translation_id = ? AND book = ?
\*   AND chapter = ? ORDER BY verse
getChapterVersesFromDb(vs, translationId, bookNumber, chapterNumber) ==
  LET Cond(r) == /\ r.translation_id = translationId
                 /\ r.book = bookNumber
                 /\ r.chapter = chapterNumber
      Less(a, b) == a.verse < b.verse
      rows == OrderBy(Where(vs, Cond), Less)
  IN [i \in DOMAIN rows |-> [number |-> rows[i].verse, text |-> rows[i].text]]

\* TranslationQuerySchema.safeParse(c.req.query()): c.req.query() has one
\* string per key, so the parameters are Absent or strings here
parseTranslationQuery(langParam, translationParam) ==
  LET issues == OptionalStringIssues("language", langParam)
                \cup OptionalStringIssues("translation", translationParam)
  IN IF issues # {}
       THEN [ok |-> FALSE,
             error |-> ErrorResponse(400, "INVALID_QUERY", <<"parsed.error.message">>)]
     ELSE [ok |-> TRUE,
           data |-> [language |-> IF langParam # Absent THEN langParam ELSE DEFAULT_LANGUAGE,
                     translationId |-> translationParam]]

\* variant: a chapter index out of range is a client error
ChapterOutOfRange_BadRequest(chapterNum, bookData) ==
  ErrorResponse(400, "CHAPTER_NOT_FOUND",
    <<"Chapter ">> \o numberToString(chapterNum) \o <<" not found in ">> \o bookData.names.en)

\* the answer to isNaN(chapterNum) || chapterNum < 1 || chapterNum > bookData.chapters
ChapterOutOfRange(chapterNum, bookData) ==
  ErrorResponse(404, "CHAPTER_NOT_FOUND",
    <<"Chapter ">> \o numberToString(chapterNum) \o <<" not found in ">> \o bookData.names.en)

\* books.get("/:id/chapters/:chapter")
getChapter(trs, vs, id, chapter, langParam, translationParam) ==
  LET chapterNum == parseIntAny(chapter)
      parsedQuery == parseTranslationQuery(langParam, translationParam)
      language == parsedQuery.data.language
      translationId == parsedQuery.data.translationId
      bookData == getBookByIdOrAlias(id)
      translation == ResolveTranslation(trs, translationId, language)
      chapterVerses == getChapterVersesFromDb(vs, translation[1].id, bookData[1].number,
                                              chapterNum)
  IN IF ~parsedQuery.ok THEN parsedQuery.error
     ELSE IF bookData = <<>>
       THEN ErrorResponse(404, "BOOK_NOT_FOUND", <<"Book '">> \o id \o <<"' not found">>)
     ELSE IF isNaN(chapterNum) \/ chapterNum < 1 \/ chapterNum > bookData[1].chapters
       THEN ChapterOutOfRange(chapterNum, bookData[1])
     ELSE IF translation = <<>> THEN TranslationNotFound(translationId, language)
     ELSE IF Len(chapterVerses) = 0
       THEN ErrorResponse(404, "CHAPTER_NOT_FOUND",
              <<"Chapter ">> \o numberToString(chapterNum) \o <<" not found">>)
     ELSE [status |-> 200,
           body |-> [translation |-> translation[1].id,
                     language |-> language,
                     book |-> [id |-> bookData[1].id, name |-> BookName(bookData[1], language)],
                     chapter |-> chapterNum,
                     verses |-> chapterVerses]]

(***************************************************************************)
(* The database module (services/bible-loader.ts): one handle, opened on   *)
(* first use, and the statements prepared on it.  A handle is named by the *)
(* number of the `new Database` call that made it; 0 stands for null and,  *)
(* for a statement, for "not prepared".                                    *)
(***************************************************************************)
\* largest number of handles the process opens in a run of the model
MaxHandles == 6

\* the members of stmts
StatementNames == {"getTranslations", "getTranslationsByLanguage", "getTranslation",
                   "getVerse", "getVerseRange", "getChapterVerses", "getChapterCount"}

\* the functions that call database.query themselves, on getDatabase()
DynamicQueries == {"searchVerses", "getAvailableLanguages"}

\* let db = null; let stmts = {}
NoDatabase == [db |-> 0, open |-> {}, created |-> 0,
               stmts |-> [s \in StatementNames |-> 0]]

\* if (!db) { db = new Database(DB_PATH); ... } return db
getDatabase(d) ==
  IF d.db = 0
    THEN [d EXCEPT !.db = d.created + 1,
                   !.open = @ \cup {d.created + 1},
                   !.created = @ + 1]
  ELSE d

\* const database = getDatabase(); if (!stmts.x) stmts.x = database.query(...)
getStatements(d) ==
  LET opened == getDatabase(d)
  IN [opened EXCEPT !.stmts = [s \in StatementNames |->
                                 IF opened.stmts[s] = 0 THEN opened.db
                                 ELSE opened.stmts[s]]]

\* stmts after closeDatabase closed the handle
StatementsAfterClose_Kept(stmts) == stmts
StatementsAfterClose(stmts) == [s \in StatementNames |-> 0]

\* if (db) { db.close(); db = null; stmts = {}; }
closeDatabase(d) ==
  IF d.db # 0
    THEN [d EXCEPT !.open = @ \ {d.db},
                   !.db = 0,
                   !.stmts = StatementsAfterClose(d.stmts)]
  ELSE d

(***************************************************************************)
(* The cache of parsed translations (class LRUCache).  The Map is the      *)
(* sequence of its entries in insertion order, which is the order          *)
(* Map.keys() iterates in.                                                 *)
(***************************************************************************)
\* the constructor argument of the cache, kept small
maxSize == 2

\* the position of key in the Map, 0 when the Map does not have it
Position(cache, key) ==
  IF \E i \in DOMAIN cache : cache[i].key = key
    THEN CHOOSE i \in DOMAIN cache : cache[i].key = key
  ELSE 0

\* Map.delete(key)
MapDelete(cache, key) == SelectSeq(cache, LAMBDA e : e.key # key)

\* Map.set(key, value): an existing key keeps its position
MapSet(cache, key, value) ==
  IF Position(cache, key) = 0 THEN Append(cache, [key |-> key, value |-> value])
  ELSE [cache EXCEPT ![Position(cache, key)].value = value]

\* LRUCache.get: the Map after the call (the entry found moves to the end)
LRUCache_get(cache, key) ==
  LET at == Position(cache, key)
  IN IF at # 0
       THEN MapSet(MapDelete(cache, key), key, cache[at].value)
     ELSE cache

\* the key `if (firstKey)` lets set evict: a non-empty string
Evictable(firstKey) == TruthyStr(firstKey)

\* LRUCache.set
LRUCache_set(cache, key, value) ==
  LET kept == IF Position(cache, key) # 0 THEN MapDelete(cache, key)
              ELSE IF Len(cache) >= maxSize
                THEN LET firstKey == cache[1].key
                     IN IF Evictable(firstKey) THEN MapDelete(cache, firstKey)
                        ELSE cache
              ELSE cache
  IN MapSet(kept, key, value)

\* LRUCache.clear
LRUCache_clear(cache) == <<>>

(***************************************************************************)
(* Discovery of the translations from the XML files.  translationsMeta is  *)
(* null or the array of the entries pushed so far; an entry is named by    *)
(* its file.                                                               *)
(***************************************************************************)
\* number of requests that can be in flight together
MaxCallers == 2

Callers == 1 .. MaxCallers

\* let translationsMeta = null
Null == <<"null">>

\* the .xml files readdir(BIBLE_DIR) lists
XmlFiles == <<"en-kjv.xml", "fr-lsg.xml">>

\* a caller that is not inside discoverTranslations
NotCalling == [pc |-> "idle", next |-> 0, returned |-> Null]

(***************************************************************************)
(* The import script (scripts/import-xml.ts).  Its store has the tables    *)
(* translations(id, name, status, filename) and verses(translation_id,     *)
(* book, chapter, verse, text) with UNIQUE(translation_id, book, chapter,  *)
(* verse).                                                                 *)
(***************************************************************************)
\* the position of the first occurrence of pat in s, 0 when there is none
IndexOf(s, pat) ==
  LET At(i) == SubSeq(s, i, i + Len(pat) - 1) = pat
      places == {i \in 1..(Len(s) - Len(pat) + 1) : At(i)}
  IN IF places = {} THEN 0
     ELSE CHOOSE i \in places : \A j \in places : i <= j

\* String.replace(pat, ""): the first occurrence of pat is removed
removeFirst(s, pat) ==
  LET at == IndexOf(s, pat)
  IN IF at = 0 THEN s
     ELSE SubSeq(s, 1, at - 1) \o SubSeq(s, at + Len(pat), Len(s))

\* String.replace(/Bible$/i, "")
removeBibleSuffix(s) ==
  IF /\ Len(s) >= 5
     /\ toLowerCase(SubSeq(s, Len(s) - 4, Len(s))) = <<"b","i","b","l","e">>
    THEN SubSeq(s, 1, Len(s) - 5)
  ELSE s

\* filename.replace(".xml", "").replace(/Bible$/i, "").toLowerCase()
parseTranslationIdFromFilename(filename) ==
  toLowerCase(removeBibleSuffix(removeFirst(filename, <<".","x","m","l">>)))

KJVBible_xml == <<"K","J","V","B","i","b","l","e",".","x","m","l">>
lsg_xml == <<"l","s","g",".","x","m","l">>
twice_xml == <<"t","w","i","c","e",".","x","m","l">>

\* the .xml files of the bible/ directory before the first import
BibleDir == {KJVBible_xml, lsg_xml, twice_xml}

\* what the parser reads from a file: the name of the translation and its
\* verses in document order (twice.xml gives one verse number twice)
FileContent(filename) ==
  IF filename = KJVBible_xml
    THEN [name |-> "King James Version",
          verses |-> <<[book |-> 43, chapter |-> 3, verse |-> 1, text |-> "God loved"],
                       [book |-> 43, chapter |-> 3, verse |-> 3, text |-> "the Lord is good."]>>]
  ELSE IF filename = lsg_xml
    THEN [name |-> "Louis Segond",
          verses |-> <<[book |-> 43, chapter |-> 3, verse |-> 1, text |-> "Dieu"]>>]
  ELSE [name |-> "Twice",
        verses |-> <<[book |-> 19, chapter |-> 1, verse |-> 1, text |-> "Blessed"],
                     [book |-> 19, chapter |-> 1, verse |-> 1, text |-> "Blessed"]>>]

\* the INSERT of a verse breaks UNIQUE(translation_id, book, chapter, verse)
UniqueViolation(vs, row) ==
  \E i \in DOMAIN vs :
    /\ vs[i].translation_id = row.translation_id
    /\ vs[i].book = row.book
    /\ vs[i].chapter = row.chapter
    /\ vs[i].verse = row.verse

\* the loop of insertVerse.run inside the transaction, from the i-th verse
\* on: the verses table at the end, or threw when an INSERT throws; failAt
\* is the verse at which the store refuses the write for a reason of its
\* own (disk full, I/O error), 0 for none
RECURSIVE insertVerses(_, _, _, _, _)
insertVerses(vs, translationId, fileVerses, i, failAt) ==
  IF i > Len(fileVerses) THEN [threw |-> FALSE, rows |-> vs]
  ELSE LET v == fileVerses[i]
           row == [translation_id |-> translationId, book |-> v.book,
                   chapter |-> v.chapter, verse |-> v.verse, text |-> v.text]
       IN IF i = failAt \/ UniqueViolation(vs, row) THEN [threw |-> TRUE, rows |-> vs]
          ELSE insertVerses(Append(vs, row), translationId, fileVerses, i + 1, failAt)

\* importXmlFile(db, filepath, filename): the translation row is written by
\* db.run, the verses by the transaction insertAll, which rolls its own
\* writes back when it throws
importXmlFile(trs, vs, filename, failAt) ==
  LET translationId == parseTranslationIdFromFilename(filename)
      content == FileContent(filename)
      inserted == Append(trs, [id |-> translationId, name |-> content.name,
                               status |-> "Unknown", filename |-> filename])
      insertAll == insertVerses(vs, translationId, content.verses, 1, failAt)
  IN IF \E i \in DOMAIN trs : trs[i].id = translationId
       THEN [threw |-> FALSE, skipped |-> TRUE, verses |-> 0,
             translations |-> trs, rows |-> vs]
     ELSE IF insertAll.threw
       THEN [threw |-> TRUE, skipped |-> FALSE, verses |-> 0,
             translations |-> inserted, rows |-> vs]
     ELSE [threw |-> FALSE, skipped |-> FALSE, verses |-> Len(content.verses),
           translations |-> inserted, rows |-> insertAll.rows]

\* the script is not running; dir is what bible/ holds
NotImporting(dir) ==
  [pc |-> "idle", dir |-> dir, files |-> <<>>, at |-> 0, imported |-> 0,
   skipped |-> 0, filesToDelete |-> {}, last |-> "none"]

(***************************************************************************)
(* The state of the services when the modules are loaded.                  *)
(***************************************************************************)
ServicesLoaded ==
  /\ database = NoDatabase
  /\ translationCache = <<>>
  /\ touched = <<>>
  /\ translationsMeta = Null
  /\ callers = [c \in Callers |-> NotCalling]
  /\ importer = NotImporting(BibleDir)

(***************************************************************************)
(* Inputs: the strings a client sends, built from their parts.             *)
(***************************************************************************)
BookTokens == {<<"J","o","h","n">>,
   <<"J","H","N">>,
   <<"p","s">>,
   <<"x","y","z">>}

ChapterStrs == {<<"0">>,
   <<"0","3">>,
   <<"2","1">>,
   <<"2","2">>,
   <<"1","5","1">>}

VerseStrs == {numToString(n) : n \in 0..MaxVerse} \cup {<<"0","1">>}

VerseEndStrs == {numToString(n) : n \in 0..MaxVerse}

\* strings the pattern of the parser rejects
MalformedRefs == {<<"i","n","v","a","l","i","d">>,
   <<"j","h","n",".","3">>,
   <<>>,
   <<" ","j","h","n",".","3",".","1"," ">>,
   <<"j","h","n",".","3",".","1","-">>,
   <<"j","h","n",".",".","1">>,
   <<"j","h"," ","n",".","3",".","1">>,
   <<"j","h","n",".","3",".","1","-","2","-","3">>}

WellFormedRefs(toks, chaps) ==
  {t \o <<".">> \o c \o <<".">> \o v : t \in toks, c \in chaps, v \in VerseStrs}
  \cup
  {t \o <<".">> \o c \o <<".">> \o v \o <<"-">> \o e :
     t \in toks, c \in chaps, v \in VerseStrs, e \in VerseEndStrs}

\* references given to parseReference
Refs == WellFormedRefs(BookTokens, ChapterStrs) \cup MalformedRefs

\* references given to GET /verses/{ref}
RouteRefs == 
  WellFormedRefs({<<"J","o","h","n">>}, {<<"3">>})
  \cup {<<"J","o","h","n",".","2","2",".","1">>, <<"J","o","h","n",".","0",".","1">>, <<"x","y","z",".","3",".","1">>, <<"i","n","v","a","l","i","d">>, <<" ","J","H","N",".","3",".","1"," ">>}

\* references given to GET /verses/{ref}/compare
CompareRefs == {<<"J","o","h","n",".","3",".","1">>,
   <<"j","h","n",".","3",".","3","-","3">>,
   <<"i","n","v","a","l","i","d">>}

\* segments of the refs parameter of GET /verses
RefSegments == {<<"j","h","n",".","3",".","1">>,
   <<" ","j","h","n",".","3",".","3">>,
   <<"J","o","h","n",".","3",".","1","-","3">>,
   <<"j","h","n",".","2","2",".","1">>,
   <<>>}

\* segments of the translations parameter of the comparison
TranslationSegments == {<<"e","n","-","k","j","v">>,
   <<" ","f","r","-","l","s","g">>,
   <<"n","o","p","e">>,
   <<>>}

\* segments of the languages parameter of the comparison
LanguageSegments == {<<" ","f","r">>,
   <<"d","e">>}

\* the comma-separated lists of 1..MaxSegs segments
RECURSIVE JoinedLists(_, _)
JoinedLists(segs, n) ==
  IF n = 1 THEN segs
  ELSE LET shorter == JoinedLists(segs, n - 1)
       IN shorter \cup {l \o <<",">> \o g : l \in shorter, g \in segs}

LanguageParams == {Absent, FR, <<"d","e">>}

TranslationParams == {Absent, <<>>, EN_KJV, <<"n","o","p","e">>}

\* (translations, languages) parameters of a comparison request
CompareParams ==
  ({Absent, <<>>} \X ({Absent, <<>>} \cup JoinedLists(LanguageSegments, MaxSegs)))
  \cup (JoinedLists(TranslationSegments, MaxSegs) \X {Absent, EN})

Queries == {<<"g","o","d">>,
   <<"G","O","D">>,
   <<" ","g","o","d"," ">>,
   <<"i","s"," ","g","o","o","d">>,
   <<"_">>,
   <<"o","%","d">>,
   <<" ">>,
   <<"l","o">>,
   <<"x","y","z">>}

Limits == {0, 1, 2, 10}

Offsets == {0, 1, 2}

\* queries of GET /verses that the validation rejects
RejectedRefsQueries ==
  {query \in [refs : {Absent, <<>>, Repeated, <<"j","h","n",".","3",".","1">>},
               language : {Absent, Repeated},
               translation : {Absent, Repeated}] : RefsQueryIssues(query) # {}}

\* the path parameters of GET /books/:id/chapters/:chapter
BookIds == {<<"j","h","n">>, <<"J","o","h","n">>, <<"x","y","z">>}

ChapterParams == {<<"0">>, <<"3">>, <<"2","1">>, <<"2","2">>, <<"-","1">>, <<"x">>}

\* the query strings of GET /search
SearchQueries ==
  [q : {Absent, <<>>, <<" ">>, <<"l","o">>, <<"L","O","R","D">>, <<"d",".">>},
   language : {Absent, FR},
   translation : {Absent, <<"n","o","p","e">>, Repeated},
   limit : {Absent, <<>>, <<"0">>, <<"1">>, <<"1","0","1">>, <<"-","1">>, <<"x">>},
   offset : {Absent, <<"1">>, <<"x">>}]

(***************************************************************************)
(* State machine: the store is fixed by the import that built it; every    *)
(* action is one call or one request, recorded with its outcome.           *)
(***************************************************************************)
Init ==
  /\ \E st \in Stores : translations = st.translations /\ verses = st.verses
  /\ req = [op |-> "none"]
  /\ parsed = <<>>
  /\ res = [status |-> 0]
  /\ ServicesLoaded

\* no call or request is in progress
Idle == req.op = "none"

\* parseReference(ref), then formatReference of a successful result in "en"
ParseReference ==
  \E ref \in Refs :
    LET p == parseReference(ref)
    IN /\ Idle
       /\ req' = [op |-> "parseReference", ref |-> ref]
       /\ parsed' = <<p>>
       /\ res' = IF p.success
                   THEN [status |-> 0, formatted |-> formatReference(p.reference, p.book, EN)]
                   ELSE [status |-> 0]
       /\ UNCHANGED <<translations, verses, services>>

GetVerse ==
  \E ref \in RouteRefs, langParam \in LanguageParams, translationId \in TranslationParams :
    /\ Idle
    /\ req' = [op |-> "getVerse", ref |-> ref, language |-> langParam,
               translation |-> translationId]
    /\ parsed' = <<parseReference(ref)>>
    /\ res' = getVerseRoute(translations, verses, ref, langParam, translationId)
    /\ UNCHANGED <<translations, verses, services>>

GetMultipleVerses ==
  \E refs \in JoinedLists(RefSegments, MaxSegs), langParam \in {Absent, FR},
     translationId \in {Absent, <<"n","o","p","e">>} :
    LET language == IF langParam # Absent THEN langParam ELSE DEFAULT_LANGUAGE
    IN /\ Idle
       /\ refs # <<>>
       /\ req' = [op |-> "getMultipleVerses", refs |-> refs, language |-> langParam,
                  translation |-> translationId]
       /\ parsed' = IF ResolveTranslation(translations, translationId, language) = <<>>
                      THEN <<>> ELSE parseMultipleReferences(refs)
       /\ res' = getMultipleVersesRoute(translations, verses, refs, langParam, translationId)
       /\ UNCHANGED <<translations, verses, services>>

CompareVerse ==
  \E ref \in CompareRefs, params \in CompareParams :
    /\ Idle
    /\ req' = [op |-> "compareVerse", ref |-> ref, translations |-> params[1],
               languages |-> params[2]]
    /\ parsed' = <<parseReference(ref)>>
    /\ res' = compareVerseRoute(translations, verses, ref, params[1], params[2])
    /\ UNCHANGED <<translations, verses, services>>

SearchVerses ==
  \E translationId \in {EN_KJV, FR_LSG}, query \in Queries,
     limit \in Limits, offset \in Offsets :
    /\ Idle
    /\ req' = [op |-> "searchVerses", translation |-> translationId, query |-> query,
               limit |-> limit, offset |-> offset]
    /\ parsed' = <<>>
    /\ res' = [status |-> 0] @@ searchVerses(verses, translationId, query, limit, offset)
    /\ UNCHANGED <<translations, verses, services>>

\* GET /search?q=...&language=...&translation=...&limit=...&offset=...
Search ==
  \E query \in SearchQueries :
    /\ Idle
    /\ req' = [op |-> "search", query |-> query]
    /\ parsed' = <<>>
    /\ res' = search(translations, verses, query)
    /\ UNCHANGED <<translations, verses, services>>

\* GET /books/{id}/chapters/{chapter}?language=...&translation=...
GetChapter ==
  \E id \in BookIds, chapter \in ChapterParams, langParam \in {Absent, FR},
     translationId \in {Absent, <<"n","o","p","e">>} :
    /\ Idle
    /\ req' = [op |-> "getChapter", id |-> id, chapter |-> chapter,
               language |-> langParam, translation |-> translationId]
    /\ parsed' = <<>>
    /\ res' = getChapter(translations, verses, id, chapter, langParam, translationId)
    /\ UNCHANGED <<translations, verses, services>>

\* GET /verses with a query the validation rejects: the hook answers
RejectRefsQuery ==
  \E query \in RejectedRefsQueries :
    /\ Idle
    /\ req' = [op |-> "rejectRefsQuery", query |-> query]
    /\ parsed' = <<>>
    /\ res' = versesDefaultHook(RefsQueryIssues(query))
    /\ UNCHANGED <<translations, verses, services>>

\* a request to a path no route matches
NotFound ==
  /\ Idle
  /\ req' = [op |-> "notFound"]
  /\ parsed' = <<>>
  /\ res' = notFound
  /\ UNCHANGED <<translations, verses, services>>

\* the outcome is handed to the caller; the next call or request can start
Respond ==
  /\ ~Idle
  /\ req' = [op |-> "none"]
  /\ parsed' = <<>>
  /\ res' = [status |-> 0]
  /\ UNCHANGED <<translations, verses, services>>

Next ==
  \/ ParseReference
  \/ GetVerse
  \/ GetMultipleVerses
  \/ CompareVerse
  \/ SearchVerses
  \/ Search
  \/ GetChapter
  \/ RejectRefsQuery
  \/ NotFound
  \/ Respond

Spec == Init /\ [][Next]_vars

(***************************************************************************)
(* GET /translations (routes/translations.ts).                             *)
(***************************************************************************)
DEFAULT_TRANSLATION == <<"e","n","-","k","j","v">>

\* SELECT ... FROM translations ORDER BY language, name
getAllTranslations(trs) ==
  LET Less(a, b) == \/ StrLess(a.language, b.language)
                    \/ (a.language = b.language /\ StrLess(a.name, b.name))
      All(r) == TRUE
  IN OrderBy(Where(trs, All), Less)

discoverTranslations(trs) ==
  LET rows == getAllTranslations(trs)
  IN [i \in DOMAIN rows |-> rowToMeta(rows[i])]

\* variant: every translation of the default language is flagged
isDefault_ByLanguage(t) == t.language = DEFAULT_LANGUAGE

\* t.id === DEFAULT_TRANSLATION
isDefault(t) == t.id = DEFAULT_TRANSLATION

\* translations.get("/"): the query parameter is Absent or a string
getTranslations(trs, language) ==
  LET issues == OptionalStringIssues("language", language)
      translationList == IF TruthyStr(language) THEN getTranslationsByLanguage(trs, language)
                         ELSE discoverTranslations(trs)
      Entry(t) == [id |-> t.id, name |-> t.name, language |-> t.language,
                   status |-> t.status]
                  @@ (IF isDefault(t) THEN [default |-> TRUE] ELSE <<>>)
      listed == [i \in DOMAIN translationList |-> Entry(translationList[i])]
  IN IF issues # {} THEN ErrorResponse(400, "INVALID_QUERY", <<"queryResult.error.message">>)
     ELSE [status |-> 200,
           body |-> [default |-> DEFAULT_TRANSLATION, translations |-> listed]
                    @@ (IF TruthyStr(language) THEN [language |-> language] ELSE <<>>)]

(***************************************************************************)
(* Default translation: the translations table filled by imports in any    *)
(* order, and calls of getDefaultTranslation.                              *)
(***************************************************************************)
EN_WEB == <<"e","n","-","w","e","b">>
EN_ASV == <<"e","n","-","a","s","v">>

ImportableTranslations == TranslationRows \o <<
  [id |-> EN_WEB, name |-> <<"W","o","r","l","d"," ","E","n","g","l","i","s","h"," ","B","i","b","l","e">>,
   language |-> EN, status |-> "complete", filename |-> "EnglishWEBBible.xml"],
  [id |-> EN_ASV, name |-> <<"A","m","e","r","i","c","a","n"," ","S","t","a","n","d","a","r","d"," ","V","e","r","s","i","o","n">>,
   language |-> EN, status |-> "complete", filename |-> "EnglishASVBible.xml"] >>

\* the translations tables imports can have produced: any of the
\* translations, inserted in any order
ImportOrders ==
  UNION {{o \in [1..n -> DOMAIN ImportableTranslations] :
            \A i, j \in 1..n : o[i] = o[j] => i = j} :
         n \in 0..Len(ImportableTranslations)}

InitTranslations ==
  /\ \E o \in ImportOrders : translations = [i \in DOMAIN o |-> ImportableTranslations[o[i]]]
  /\ verses = <<>>
  /\ req = [op |-> "none"]
  /\ parsed = <<>>
  /\ res = [status |-> 0]
  /\ ServicesLoaded

\* getDefaultTranslation(language)
GetDefaultTranslation ==
  \E language \in {EN, FR, <<"d","e">>} :
    /\ Idle
    /\ req' = [op |-> "getDefaultTranslation", language |-> language]
    /\ parsed' = <<>>
    /\ res' = [status |-> 0, translation |-> getDefaultTranslation(translations, language)]
    /\ UNCHANGED <<translations, verses, services>>

\* GET /translations and GET /translations?language=...
GetTranslations ==
  \E language \in {Absent, <<>>, EN, FR, <<"d","e">>} :
    /\ Idle
    /\ req' = [op |-> "getTranslations", language |-> language]
    /\ parsed' = <<>>
    /\ res' = getTranslations(translations, language)
    /\ UNCHANGED <<translations, verses, services>>

NextTranslations ==
  \/ GetDefaultTranslation
  \/ GetTranslations
  \/ Respond

SpecTranslations == InitTranslations /\ [][NextTranslations]_vars

(***************************************************************************)
(* The database module under query operations and closeDatabase calls.     *)
(* Every operation is recorded with the handle it ran on and, for the      *)
(* statement it executed, the handle that statement was prepared on.       *)
(***************************************************************************)
InitDatabase ==
  /\ translations = TranslationRows
  /\ verses = VerseRows
  /\ req = [op |-> "none", name |-> "none"]
  /\ parsed = <<>>
  /\ res = [before |-> 0, on |-> 0, preparedOn |-> 0]
  /\ ServicesLoaded

\* a handle can still be opened within the bound
CanOpen == database.db # 0 \/ database.created < MaxHandles

\* getAllTranslations, getTranslationsByLanguage, getTranslationById,
\* getVerse, getVerseRange, getChapterVerses, getChapterCounts:
\* getStatements().x.all(...) or .get(...)
RunStatement ==
  /\ CanOpen
  /\ \E s \in StatementNames :
       LET d == getStatements(database)
       IN /\ database' = d
          /\ req' = [op |-> "statement", name |-> s]
          /\ res' = [before |-> database.db, on |-> d.db, preparedOn |-> d.stmts[s]]
  /\ UNCHANGED <<translations, verses, parsed, translationCache, touched,
                 translationsMeta, callers, importer>>

\* searchVerses, getAvailableLanguages: getDatabase().query(...).all(...)
RunQuery ==
  /\ CanOpen
  /\ \E q \in DynamicQueries :
       LET d == getDatabase(database)
       IN /\ database' = d
          /\ req' = [op |-> "query", name |-> q]
          /\ res' = [before |-> database.db, on |-> d.db, preparedOn |-> d.db]
  /\ UNCHANGED <<translations, verses, parsed, translationCache, touched,
                 translationsMeta, callers, importer>>

\* closeDatabase()
CloseDatabase ==
  /\ database' = closeDatabase(database)
  /\ req' = [op |-> "closeDatabase", name |-> "none"]
  /\ res' = [before |-> database.db, on |-> 0, preparedOn |-> 0]
  /\ UNCHANGED <<translations, verses, parsed, translationCache, touched,
                 translationsMeta, callers, importer>>

NextDatabase ==
  \/ RunStatement
  \/ RunQuery
  \/ CloseDatabase

SpecDatabase == InitDatabase /\ [][NextDatabase]_vars

(***************************************************************************)
(* Discovery on the XML-loading path under concurrent requests.  A caller  *)
(* runs discoverTranslations from one await to the next in one step; the   *)
(* steps of different callers interleave in any order.                     *)
(***************************************************************************)
InitDiscovery ==
  /\ translations = <<>>
  /\ verses = <<>>
  /\ req = [op |-> "none"]
  /\ parsed = <<>>
  /\ res = [status |-> 0]
  /\ ServicesLoaded

\* if (translationsMeta) return translationsMeta; ... await readdir(BIBLE_DIR)
DiscoverCall(c) ==
  /\ callers[c].pc = "idle"
  /\ IF translationsMeta # Null
       THEN callers' = [callers EXCEPT ![c] = [pc |-> "done", next |-> 0,
                                               returned |-> translationsMeta]]
     ELSE callers' = [callers EXCEPT ![c] = [pc |-> "readdir", next |-> 0,
                                             returned |-> Null]]
  /\ UNCHANGED <<translations, verses, req, parsed, res, database, translationCache,
                 touched, translationsMeta, importer>>

\* readdir has answered: translationsMeta = []; the loop starts reading the
\* first file, or returns when there is none
DiscoverListed(c) ==
  /\ callers[c].pc = "readdir"
  /\ translationsMeta' = <<>>
  /\ IF XmlFiles = <<>>
       THEN callers' = [callers EXCEPT ![c] = [pc |-> "done", next |-> 0,
                                               returned |-> <<>>]]
     ELSE callers' = [callers EXCEPT ![c] = [pc |-> "readFile", next |-> 1,
                                             returned |-> Null]]
  /\ UNCHANGED <<translations, verses, req, parsed, res, database, translationCache,
                 touched, importer>>

\* readFile has answered: translationsMeta.push({...}); the loop reads the
\* next file, or returns translationsMeta after the last one
DiscoverRead(c) ==
  /\ callers[c].pc = "readFile"
  /\ LET pushed == Append(translationsMeta, XmlFiles[callers[c].next])
     IN /\ translationsMeta' = pushed
        /\ IF callers[c].next = Len(XmlFiles)
             THEN callers' = [callers EXCEPT ![c] = [pc |-> "done", next |-> 0,
                                                     returned |-> pushed]]
           ELSE callers' = [callers EXCEPT ![c].next = @ + 1]
  /\ UNCHANGED <<translations, verses, req, parsed, res, database, translationCache,
                 touched, importer>>

\* the request that called is answered
DiscoverDone(c) ==
  /\ callers[c].pc = "done"
  /\ callers' = [callers EXCEPT ![c] = NotCalling]
  /\ UNCHANGED <<translations, verses, req, parsed, res, database, translationCache,
                 touched, translationsMeta, importer>>

NextDiscovery ==
  \E c \in Callers :
    \/ DiscoverCall(c)
    \/ DiscoverListed(c)
    \/ DiscoverRead(c)
    \/ DiscoverDone(c)

SpecDiscovery == InitDiscovery /\ [][NextDiscovery]_vars

(***************************************************************************)
(* The LRU cache under get, set and clear.  touched lists the keys in the  *)
(* order of their last touch (a get that found the key, or a set), oldest  *)
(* first; every operation is recorded with the Map it found.               *)
(***************************************************************************)
\* keys given to the cache: any string, the empty one included
CacheKeys == {<<>>, <<"a">>, <<"b">>, <<"c">>}

\* the values cached: parsed translations, which are objects
CacheValues == {"bible1", "bible2"}

\* key becomes the most recently touched
Touch(keys, key) == Append(SelectSeq(keys, LAMBDA k : k # key), key)

InitCache ==
  /\ translations = <<>>
  /\ verses = <<>>
  /\ req = [op |-> "none", key |-> <<>>]
  /\ parsed = <<>>
  /\ res = [before |-> <<>>, touchedBefore |-> <<>>]
  /\ ServicesLoaded

\* translationCache.get(key)
CacheGet ==
  \E key \in CacheKeys :
    /\ translationCache' = LRUCache_get(translationCache, key)
    /\ touched' = IF Position(translationCache, key) # 0 THEN Touch(touched, key)
                  ELSE touched
    /\ req' = [op |-> "get", key |-> key]
    /\ res' = [before |-> translationCache, touchedBefore |-> touched]
    /\ UNCHANGED <<translations, verses, parsed, database, translationsMeta, callers,
                   importer>>

\* translationCache.set(key, value)
CacheSet ==
  \E key \in CacheKeys, value \in CacheValues :
    /\ translationCache' = LRUCache_set(translationCache, key, value)
    /\ touched' = Touch(touched, key)
    /\ req' = [op |-> "set", key |-> key]
    /\ res' = [before |-> translationCache, touchedBefore |-> touched]
    /\ UNCHANGED <<translations, verses, parsed, database, translationsMeta, callers,
                   importer>>

\* translationCache.clear()
CacheClear ==
  /\ translationCache' = LRUCache_clear(translationCache)
  /\ touched' = <<>>
  /\ req' = [op |-> "clear", key |-> <<>>]
  /\ res' = [before |-> translationCache, touchedBefore |-> touched]
  /\ UNCHANGED <<translations, verses, parsed, database, translationsMeta, callers,
                 importer>>

NextCache ==
  \/ CacheGet
  \/ CacheSet
  \/ CacheClear

SpecCache == InitCache /\ [][NextCache]_vars

(***************************************************************************)
(* Runs of the import script on an empty store.  main is followed from one *)
(* file of its loop to the next.                                           *)
(***************************************************************************)
\* the orders in which readdir can list the files of a directory
Listings(dir) ==
  {l \in [1..Cardinality(dir) -> dir] : \A i, j \in DOMAIN l : i # j => l[i] # l[j]}

InitImport ==
  /\ translations = <<>>
  /\ verses = <<>>
  /\ req = [op |-> "none"]
  /\ parsed = <<>>
  /\ res = [status |-> 0]
  /\ ServicesLoaded

\* main up to the loop: the schema exists, the .xml files are listed; with
\* no file the script ends
ImportStart ==
  /\ importer.pc = "idle"
  /\ \E files \in Listings(importer.dir) :
       importer' = IF files = <<>> THEN NotImporting(importer.dir)
                   ELSE [NotImporting(importer.dir) EXCEPT !.pc = "loop",
                                                           !.files = files,
                                                           !.at = 1]
  /\ UNCHANGED <<translations, verses, req, parsed, res, database, translationCache,
                 touched, translationsMeta, callers>>

\* one pass of the loop: try { importXmlFile } catch { log }
ImportFile ==
  /\ importer.pc = "loop"
  /\ LET filename == importer.files[importer.at]
     IN \E failAt \in 0..Len(FileContent(filename).verses) :
          LET result == importXmlFile(translations, verses, filename, failAt)
          IN /\ translations' = result.translations
             /\ verses' = result.rows
             /\ importer' =
                  [importer EXCEPT
                     !.pc = IF importer.at = Len(importer.files) THEN "close" ELSE "loop",
                     !.at = @ + 1,
                     !.imported = IF ~result.threw /\ ~result.skipped THEN @ + 1 ELSE @,
                     !.skipped = IF ~result.threw /\ result.skipped THEN @ + 1 ELSE @,
                     !.filesToDelete = IF ~result.threw /\ ~result.skipped
                                         THEN @ \cup {filename} ELSE @,
                     !.last = IF result.threw THEN "ERROR"
                              ELSE IF result.skipped THEN "SKIPPED" ELSE "OK"]
  /\ UNCHANGED <<req, parsed, res, database, translationCache, touched,
                 translationsMeta, callers>>

\* main after the loop: db.close(); the imported files are unlinked
ImportFinish ==
  /\ importer.pc = "close"
  /\ importer' = NotImporting(importer.dir \ importer.filesToDelete)
  /\ UNCHANGED <<translations, verses, req, parsed, res, database, translationCache,
                 touched, translationsMeta, callers>>

NextImport ==
  \/ ImportStart
  \/ ImportFile
  \/ ImportFinish

SpecImport == InitImport /\ [][NextImport]_vars

(***************************************************************************)
(* highlightMatches on texts and queries of its own: every text over a     *)
(* few characters, the characters of the markers among them, and queries   *)
(* of letters in both cases and pattern characters.                        *)
(***************************************************************************)
\* longest verse text highlighted
MaxTextLen == 3

TextChars == {"a", "<", "e", "m", ">"}

\* non-empty queries: letters in either case, characters of the markers,
\* and characters that are operators in a pattern
HighlightQueries == {<<"a">>, <<"A">>, <<"e">>, <<"<">>, <<">">>, <<".">>, <<"*">>,
                     <<".", "*">>, <<"a", "*">>, <<"A", "a">>, <<"a", ".">>,
                     <<"<", "E">>, <<"m", ">">>, <<"A", "<", "e">>}

\* the strings of at most n characters of a set
StringsUpTo(chars, n) == UNION {[1..k -> chars] : k \in 0..n}

InitHighlight ==
  /\ translations = <<>>
  /\ verses = <<>>
  /\ req = [op |-> "none"]
  /\ parsed = <<>>
  /\ res = [status |-> 0]
  /\ ServicesLoaded

\* highlightMatches(text, query), as the search route calls it for a verse
\* it found with a non-empty query
HighlightMatches ==
  \E text \in StringsUpTo(TextChars, MaxTextLen),
     query \in HighlightQueries :
    /\ Idle
    /\ req' = [op |-> "highlightMatches", text |-> text, query |-> query]
    /\ res' = [status |-> 0, highlight |-> highlightMatches(text, query)]
    /\ UNCHANGED <<translations, verses, parsed, services>>

NextHighlight ==
  \/ HighlightMatches
  \/ Respond

SpecHighlight == InitHighlight /\ [][NextHighlight]_vars

(***************************************************************************)
(* Vocabulary of the properties.  A reference is described by the parts it *)
(* was written from, independently of the parser.                          *)
(***************************************************************************)
\* the same string up to the case of ASCII letters
SameIgnoringCase(a, b) ==
  /\ Len(a) = Len(b)
  /\ \A i \in DOMAIN a :
       \/ a[i] = b[i]
       \/ \E k \in DOMAIN UpperChars :
            {a[i], b[i]} = {UpperChars[k], LowerChars[k]}

\* the token names the book: it is the id or an alias, in any letter case
Names(tok, book) ==
  \E n \in {book.id} \cup book.aliases : SameIgnoringCase(tok, n)

\* the number a string of decimal digits denotes, read from the left
RECURSIVE DecimalValue(_, _)
DecimalValue(ds, acc) ==
  IF ds = <<>> THEN acc
  ELSE DecimalValue(Tail(ds),
         10 * acc + (CHOOSE d \in 0..9 : DigitChars[d + 1] = Head(ds)))

Value(ds) == DecimalValue(ds, 0)

AllChapterStrs == ChapterStrs \cup {<<"3">>}

\* '<tok>.<c>.<v>' and '<tok>.<c>.<v>-<e>'
RefOf(tok, cs, vs, es) ==
  tok \o <<".">> \o cs \o <<".">> \o vs \o
    (IF es = Absent THEN <<>> ELSE <<"-">> \o es)

\* the ways the reference of the current call is written as
\* <<token, chapter digits, verse digits, end digits or Absent>>
Written ==
  IF req.op \in {"parseReference", "getVerse"}
    THEN {w \in BookTokens \X AllChapterStrs \X VerseStrs \X (VerseEndStrs \cup {Absent}) :
            RefOf(w[1], w[2], w[3], w[4]) = req.ref}
    ELSE {}

InvalidReferenceResponse ==
  /\ res.status = 400
  /\ res.body.error.code = "INVALID_REFERENCE"

\* C1: a reference '<tok>.<c>.<v>' whose token names a catalog book B in any
\* letter case, with 1 <= c <= B.chapters and v a verse number, parses to
\* book B.id, chapter c, verseStart v, and formats in "en" as "<B.names.en> c:v".
C1_ParseFormatRoundTrip ==
  req.op = "parseReference" =>
    \A w \in Written : \A b \in DOMAIN BOOKS :
      /\ Names(w[1], BOOKS[b])
      /\ Value(w[2]) >= 1 /\ Value(w[2]) <= BOOKS[b].chapters
      /\ Value(w[3]) >= 1
      /\ w[4] = Absent
      => /\ parsed[1].success
         /\ parsed[1].reference.book = BOOKS[b].id
         /\ parsed[1].reference.chapter = Value(w[2])
         /\ parsed[1].reference.verseStart = Value(w[3])
         /\ res.formatted = BOOKS[b].names.en \o <<" ">> \o numToString(Value(w[2]))
                              \o <<":">> \o numToString(Value(w[3]))

\* C1 witness: the alias "John" in mixed case with the last chapter of the book
C1_Witness ==
  /\ req.op = "parseReference"
  /\ req.ref = <<"J","o","h","n",".","2","1",".","3">>
  /\ parsed[1].success
  /\ parsed[1].reference.book = <<"j","h","n">>
  /\ res.formatted = <<"J","o","h","n"," ","2","1",":","3">>

\* C2: a well-formed reference whose token names a book B and whose chapter
\* is < 1 or > B.chapters never parses: the failure message contains
\* "Invalid chapter", and GET /verses/{ref} answers 400 INVALID_REFERENCE.
C2_InvalidChapterRejected ==
  \A w \in Written : \A b \in DOMAIN BOOKS :
    /\ Names(w[1], BOOKS[b])
    /\ (Value(w[2]) < 1 \/ Value(w[2]) > BOOKS[b].chapters)
    => /\ ~parsed[1].success
       /\ ContainsLiteral(parsed[1].error, "Invalid chapter")
       /\ req.op = "getVerse" => InvalidReferenceResponse /\ res.body.error.message = parsed[1].error

\* C2 witness: GET /verses/John.22.1 (John has 21 chapters) is answered 400
C2_Witness ==
  /\ req.op = "getVerse"
  /\ req.ref = <<"J","o","h","n",".","2","2",".","1">>
  /\ InvalidReferenceResponse
  /\ ContainsLiteral(res.body.error.message, "Invalid chapter")

\* C3: a well-formed range reference with a known book and an in-range
\* chapter whose end verse is smaller than its start verse (end 0 included)
\* fails with "End verse must be >= start verse", and GET /verses/{ref}
\* answers 400 INVALID_REFERENCE.
C3_DescendingRangeRejected ==
  \A w \in Written : \A b \in DOMAIN BOOKS :
    /\ Names(w[1], BOOKS[b])
    /\ Value(w[2]) >= 1 /\ Value(w[2]) <= BOOKS[b].chapters
    /\ w[4] # Absent
    /\ Value(w[4]) < Value(w[3])
    => /\ ~parsed[1].success
       /\ ContainsLiteral(parsed[1].error, "End verse must be >= start verse")
       /\ req.op = "getVerse" => InvalidReferenceResponse /\ res.body.error.message = parsed[1].error

\* C3 witness: GET /verses/John.3.1-0, an end verse of 0, is answered 400
C3_Witness ==
  /\ req.op = "getVerse"
  /\ req.ref = <<"J","o","h","n",".","3",".","1","-","0">>
  /\ InvalidReferenceResponse
  /\ ContainsLiteral(res.body.error.message, "End verse must be >= start verse")

\* C4: every successful parse result names a catalog book by its canonical
\* id, has 1 <= chapter <= that book's chapter count, and has verseEnd
\* absent or >= verseStart.
C4_ParsedReferenceInvariant ==
  \A i \in DOMAIN parsed :
    parsed[i].success =>
      /\ \E b \in DOMAIN BOOKS :
           /\ parsed[i].reference.book = BOOKS[b].id
           /\ parsed[i].book = BOOKS[b]
           /\ parsed[i].reference.chapter >= 1
           /\ parsed[i].reference.chapter <= BOOKS[b].chapters
      /\ \/ parsed[i].reference.verseEnd = Undefined
         \/ parsed[i].reference.verseEnd >= parsed[i].reference.verseStart

\* C4 witness: the alias "ps" with a range parses to the canonical id "psa"
C4_Witness ==
  /\ req.op = "parseReference"
  /\ req.ref = <<"p","s",".","0","3",".","2","-","3">>
  /\ parsed[1].success
  /\ parsed[1].reference.book = <<"p","s","a">>
  /\ parsed[1].reference.verseEnd = 3

\* C5: GET /verses/b.c.v-v returns the same status and body as
\* GET /verses/b.c.v: the single-verse shape (verse and text, no verses
\* array) and a reference string without a range suffix.
C5_SingleVerseRangeNotation ==
  req.op = "getVerse" =>
    \A w \in Written :
      w[4] = w[3] =>
        /\ res = getVerseRoute(translations, verses, RefOf(w[1], w[2], w[3], Absent),
                               req.language, req.translation)
        /\ res.status = 200 =>
             /\ {"verse", "text"} \subseteq DOMAIN res.body
             /\ "verses" \notin DOMAIN res.body
             /\ ~ContainsLiteral(res.body.reference, "-")

\* C5 witness: GET /verses/John.3.1-1 is answered 200 with the one verse
C5_Witness ==
  /\ req.op = "getVerse"
  /\ req.ref = <<"J","o","h","n",".","3",".","1","-","1">>
  /\ res.status = 200
  /\ res.body.verse = 1
  /\ res.body.reference = <<"J","o","h","n"," ","3",":","1">>

\* the lists of 1..MaxSegs segments
SegmentLists(segs) == UNION {[1..n -> segs] : n \in 1..MaxSegs}

RECURSIVE Join(_)
Join(list) ==
  IF Len(list) = 1 THEN list[1]
  ELSE list[1] \o <<",">> \o Join(Tail(list))

\* the segments r1,...,rn the refs parameter of the current request was
\* written from (no segment contains a comma, so there is one such list)
RefsWritten ==
  IF req.op = "getMultipleVerses"
    THEN {l \in SegmentLists(RefSegments) : Join(l) = req.refs}
    ELSE {}

\* the translation of the current request resolves
TranslationResolves ==
  LET language == IF req.language # Absent THEN req.language ELSE DEFAULT_LANGUAGE
  IN ResolveTranslation(translations, req.translation, language) # <<>>

\* the stored verse rows of a translation at an address
StoredAt(translationId, bookNumber, chapter, verse) ==
  {i \in DOMAIN verses :
     /\ verses[i].translation_id = translationId
     /\ verses[i].book = bookNumber
     /\ verses[i].chapter = chapter
     /\ verses[i].verse = verse}

SegmentParses(seg) == parseReference(trim(seg)).success

\* entry e is the verse addressed by segment seg in translation translationId
IsVerseOf(e, seg, translationId) ==
  LET p == parseReference(trim(seg))
  IN /\ e.chapter = p.reference.chapter
     /\ e.verse = p.reference.verseStart
     /\ e.book \in {p.book.names.en, p.book.names.fr}
     /\ \E i \in StoredAt(translationId, p.book.number, p.reference.chapter,
                          p.reference.verseStart) : e.text = verses[i].text

\* C6 as stated: when every ri parses and the translation resolves, the
\* response is 200 with exactly n entries, entry i being the verse of ri.
C6_Original_OneEntryPerRef ==
  \A l \in RefsWritten :
    (TranslationResolves /\ \A i \in DOMAIN l : SegmentParses(l[i])) =>
      /\ res.status = 200
      /\ Len(res.body.verses) = Len(l)
      /\ \A i \in DOMAIN l : IsVerseOf(res.body.verses[i], l[i], res.body.translation)

\* the segments whose addressed verse the translation stores, in input order
RECURSIVE StoredSegments(_, _)
StoredSegments(l, translationId) ==
  IF l = <<>> THEN <<>>
  ELSE LET p == parseReference(trim(Head(l)))
       IN (IF StoredAt(translationId, p.book.number, p.reference.chapter,
                       p.reference.verseStart) # {}
             THEN <<Head(l)>> ELSE <<>>) \o StoredSegments(Tail(l), translationId)

\* C6 as amended: when every ri parses and the translation resolves, the
\* response is 200 and its verses array has exactly one entry for each ri
\* whose verse (book, chapter, start verse) the translation stores, in input
\* order, each with book, chapter, verse and text of that verse; a reference
\* to a verse the translation does not store contributes no entry.
C6_OneEntryPerStoredRef ==
  \A l \in RefsWritten :
    (TranslationResolves /\ \A i \in DOMAIN l : SegmentParses(l[i])) =>
      /\ res.status = 200
      /\ LET stored == StoredSegments(l, res.body.translation)
         IN /\ Len(res.body.verses) = Len(stored)
            /\ \A i \in DOMAIN stored :
                 IsVerseOf(res.body.verses[i], stored[i], res.body.translation)

\* C6 witness: refs=jhn.3.1, jhn.3.3 on a translation storing 3:3 but not 3:1
\* gives the one entry of 3:3
C6_Witness ==
  /\ req.op = "getMultipleVerses"
  /\ req.refs = <<"j","h","n",".","3",".","1",","," ","j","h","n",".","3",".","3">>
  /\ res.status = 200
  /\ StoredAt(res.body.translation, 43, 3, 1) = {}
  /\ Len(res.body.verses) = 1
  /\ res.body.verses[1].verse = 3

\* C7: when a segment of refs fails to parse and the translation resolves,
\* the answer is 400 INVALID_REFERENCE with the message of the first failing
\* segment in input order, and carries no verse.
C7_FirstInvalidRefFailsBatch ==
  \A l \in RefsWritten :
    (TranslationResolves /\ \E i \in DOMAIN l : ~SegmentParses(l[i])) =>
      LET first == CHOOSE i \in DOMAIN l :
                     ~SegmentParses(l[i]) /\ \A j \in 1..(i - 1) : SegmentParses(l[j])
      IN /\ InvalidReferenceResponse
         /\ res.body.error.message = parseReference(trim(l[first])).error
         /\ "verses" \notin DOMAIN res.body

\* C7 witness: a stored verse first, then a chapter out of range
C7_Witness ==
  /\ req.op = "getMultipleVerses"
  /\ req.refs = <<"j","h","n",".","3",".","1",",","j","h","n",".","2","2",".","1">>
  /\ StoredAt(EN_KJV, 43, 3, 1) # {}
  /\ InvalidReferenceResponse
  /\ ContainsLiteral(res.body.error.message, "Invalid chapter")

\* the ids t1,...,tn the translations parameter of the current comparison
\* was written from
TranslationsWritten ==
  IF req.op = "compareVerse" /\ req.translations \notin {Absent, <<>>}
    THEN {l \in SegmentLists(TranslationSegments) : Join(l) = req.translations}
    ELSE {}

\* the translation table has a row with this id
TranslationExists(id) == \E i \in DOMAIN translations : translations[i].id = id

\* the requested ids, surrounding whitespace removed, that name an existing
\* translation storing the verse, in request order
RECURSIVE ComparableIds(_, _)
ComparableIds(l, p) ==
  IF l = <<>> THEN <<>>
  ELSE LET id == trimEnd(trimStart(Head(l)))
       IN (IF /\ TranslationExists(id)
              /\ StoredAt(id, p.book.number, p.reference.chapter,
                          p.reference.verseStart) # {}
             THEN <<id>> ELSE <<>>) \o ComparableIds(Tail(l), p)

\* C8: a comparison with a valid ref and translations=t1,...,tn is answered
\* 200, and comparisons holds exactly one entry, in request order, for each
\* ti that names an existing translation storing the verse; unknown ids and
\* translations without the verse are left out and never cause an error.
C8_CompareSkipsUnresolved ==
  \A l \in TranslationsWritten :
    parsed[1].success =>
      /\ res.status = 200
      /\ LET ids == ComparableIds(l, parsed[1])
         IN /\ Len(res.body.comparisons) = Len(ids)
            /\ \A i \in DOMAIN ids :
                 /\ res.body.comparisons[i].translation = ids[i]
                 /\ \E k \in StoredAt(ids[i], parsed[1].book.number,
                                      parsed[1].reference.chapter,
                                      parsed[1].reference.verseStart) :
                      res.body.comparisons[i].text = verses[k].text

\* C8 witness: translations=en-kjv,nope yields exactly the en-kjv entry
C8_Witness ==
  /\ req.op = "compareVerse"
  /\ req.translations = <<"e","n","-","k","j","v",",","n","o","p","e">>
  /\ res.status = 200
  /\ Len(res.body.comparisons) = 1
  /\ res.body.comparisons[1].translation = EN_KJV

\* C9: a comparison with a valid ref is answered 400 MISSING_PARAMETER
\* exactly when neither a non-empty translations nor a non-empty languages
\* parameter is supplied, and 200 whenever one is supplied, even if no entry
\* resolves.
C9_MissingParameterIff ==
  (req.op = "compareVerse" /\ parsed[1].success) =>
    LET supplied == \/ req.translations \notin {Absent, <<>>}
                    \/ req.languages \notin {Absent, <<>>}
    IN /\ (res.status = 400 /\ res.body.error.code = "MISSING_PARAMETER") <=> ~supplied
       /\ supplied => res.status = 200

\* C9 witness: languages=de is supplied, nothing resolves, the answer is 200
C9_Witness ==
  /\ req.op = "compareVerse"
  /\ parsed[1].success
  /\ req.translations = Absent
  /\ req.languages = <<"d","e">>
  /\ res.status = 200
  /\ res.body.comparisons = <<>>

\* text contains q as a literal substring, up to the case of letters
ContainsIgnoringCase(text, q) ==
  \E i \in 1..(Len(text) - Len(q) + 1) :
    SameIgnoringCase(SubSeq(text, i, i + Len(q) - 1), q)

\* the query has a character that is not whitespace
NonBlank(q) == \E i \in DOMAIN q : q[i] # " "

\* C10 as stated: for a non-blank query q, every row searchVerses returns
\* has a text containing q literally (case-insensitively), and total is the
\* number of verses of the translation whose text contains q in that way.
C10_Original_LiteralSubstringSearch ==
  (req.op = "searchVerses" /\ NonBlank(req.query)) =>
    /\ \A i \in DOMAIN res.results : ContainsIgnoringCase(res.results[i].text, req.query)
    /\ res.total = Cardinality({i \in DOMAIN verses :
                      /\ verses[i].translation_id = req.translation
                      /\ ContainsIgnoringCase(verses[i].text, req.query)})

(***************************************************************************)
(* Search: vocabulary of the claims about GET /search and searchVerses.    *)
(***************************************************************************)
\* the string is not empty and every character of it is whitespace
WhitespaceOnly(q) == q # <<>> /\ \A i \in DOMAIN q : q[i] = " "

\* no parameter of the search request is repeated in the URL
NoRepeatedParameter(query) ==
  \A f \in {"q", "language", "translation", "limit", "offset"} : query[f] # Repeated

\* the store has the translation the search request names: the one with the
\* given id, or else one of the request's language (en when none is given)
SearchTranslationStored(query) ==
  \E i \in DOMAIN translations :
    IF query.translation \notin {Absent, <<>>}
      THEN translations[i].id = query.translation
      ELSE translations[i].language =
             (IF query.language = Absent THEN <<"e","n">> ELSE query.language)

\* C11: a search whose query is only whitespace, for a translation of the
\* store, is answered 200 with total 0, no results and the query echoed as
\* sent; the query layer returns no rows and total 0 for such a query.
C11_WhitespaceQueryFindsNothing ==
  /\ (/\ req.op = "search"
      /\ req.query.q \notin {Absent, Repeated}
      /\ WhitespaceOnly(req.query.q)
      /\ NoRepeatedParameter(req.query)
      /\ SearchTranslationStored(req.query)) =>
        /\ res.status = 200
        /\ res.body.total = 0
        /\ res.body.results = <<>>
        /\ res.body.query = req.query.q
  /\ (req.op = "searchVerses" /\ WhitespaceOnly(req.query)) =>
        /\ res.total = 0
        /\ res.results = <<>>

\* C11 witness: q=" " answered 200 by a translation that has stored verses
C11_Witness ==
  /\ req.op = "search"
  /\ req.query.q = <<" ">>
  /\ res.status = 200
  /\ res.body.total = 0
  /\ \E i \in DOMAIN verses : verses[i].translation_id = res.body.translation

\* the spans of a highlight that are wrapped in <em> ... </em>
WrappedSpans(h) ==
  {SubSeq(h, i + 1, j - 1) : <<i, j>> \in
     {p \in (DOMAIN h) \X (DOMAIN h) :
        /\ p[1] < p[2]
        /\ h[p[1]] = "<em>"
        /\ h[p[2]] = "</em>"
        /\ \A k \in (p[1] + 1)..(p[2] - 1) : h[k] \notin {"<em>", "</em>"}}}

\* C12: in every result of a search, when the query occurs in the text as a
\* literal substring (up to letter case) the highlight has at least one
\* <em> wrapper, and every wrapped span is the query up to letter case, also
\* when the query has regex metacharacters.
C12_HighlightWrapsLiteralQuery ==
  (req.op = "search" /\ res.status = 200) =>
    \A i \in DOMAIN res.body.results :
      LET r == res.body.results[i]
      IN ContainsIgnoringCase(r.text, req.query.q) =>
           /\ \E k \in DOMAIN r.highlight : r.highlight[k] = "<em>"
           /\ \A span \in WrappedSpans(r.highlight) : SameIgnoringCase(span, req.query.q)

\* C12 witness: q="d." is found and wrapped in a text that ends in "d."
C12_Witness ==
  /\ req.op = "search"
  /\ req.query.q = <<"d", ".">>
  /\ res.status = 200
  /\ \E i \in DOMAIN res.body.results :
       WrappedSpans(res.body.results[i].highlight) = {<<"d", ".">>}

\* C13: the total of a search is the total of the same search with any other
\* limit and offset, on the same store.
C13_TotalIndependentOfPage ==
  /\ req.op = "searchVerses" =>
       \A limit \in Limits, offset \in Offsets :
         searchVerses(verses, req.translation, req.query, limit, offset).total = res.total
  /\ (req.op = "search" /\ res.status = 200) =>
       \A other \in SearchQueries :
         LET answer == search(translations, verses, other)
         IN (/\ other.q = req.query.q
             /\ other.language = req.query.language
             /\ other.translation = req.query.translation
             /\ answer.status = 200) => answer.body.total = res.body.total

\* C13 witness: a page of one row out of a total of two
C13_Witness ==
  /\ req.op = "searchVerses"
  /\ req.limit = 1
  /\ res.total = 2
  /\ Len(res.results) = 1

\* C14 as stated: a search answered 200 has at most as many results as the
\* limit it echoes, whatever limit and offset strings were sent.
C14_Original_ResultsWithinLimit ==
  (req.op = "search" /\ res.status = 200) =>
    Len(res.body.results) <= res.body.limit

\* a decimal numeral, with an optional minus sign
IsNumeral(s) ==
  /\ s \notin {Absent, Repeated}
  /\ LET ds == IF s # <<>> /\ Head(s) = "-" THEN Tail(s) ELSE s
     IN ds # <<>> /\ \A i \in DOMAIN ds : ds[i] \in Range(DigitChars)

\* the number a numeral denotes
NumeralValue(s) == IF Head(s) = "-" THEN 0 - Value(Tail(s)) ELSE Value(s)

\* C15: a search answered 200 echoes the limit min(sent limit, 100), or 10
\* when no limit was sent, and the offset that was sent, or 0 when none was.
C15_EffectiveLimitAndOffset ==
  (req.op = "search" /\ res.status = 200) =>
    /\ req.query.limit = Absent => res.body.limit = 10
    /\ IsNumeral(req.query.limit) =>
         res.body.limit = (IF NumeralValue(req.query.limit) < 100
                             THEN NumeralValue(req.query.limit) ELSE 100)
    /\ req.query.offset = Absent => res.body.offset = 0
    /\ IsNumeral(req.query.offset) => res.body.offset = NumeralValue(req.query.offset)

\* C15 witness: limit=101 is echoed as 100, offset=1 as 1
C15_Witness ==
  /\ req.op = "search"
  /\ req.query.limit = <<"1","0","1">>
  /\ req.query.offset = <<"1">>
  /\ res.status = 200
  /\ res.body.limit = 100
  /\ res.body.offset = 1

\* the pages of the current search at offsets k*L, (k+1)*L, ... joined, as
\* far as the total reaches
RECURSIVE JoinedPages(_)
JoinedPages(k) ==
  IF k * req.limit >= res.total THEN <<>>
  ELSE searchVerses(verses, req.translation, req.query, req.limit, k * req.limit).results
       \o JoinedPages(k + 1)

\* C16: for a limit L >= 1 the pages at offsets 0, L, 2L, ... joined are
\* total verses, no verse twice, each a stored verse of the translation;
\* the page at offset k*L is the k-th stretch of L of them.
C16_PagesPartitionMatches ==
  (req.op = "searchVerses" /\ req.limit >= 1) =>
    LET all == JoinedPages(0)
        last == IF req.offset + req.limit < Len(all) THEN req.offset + req.limit
                ELSE Len(all)
    IN /\ Len(all) = res.total
       /\ \A i, j \in DOMAIN all :
            (all[i].book = all[j].book /\ all[i].chapter = all[j].chapter
               /\ all[i].verse = all[j].verse) => i = j
       /\ \A i \in DOMAIN all : \E v \in DOMAIN verses :
            /\ verses[v].translation_id = req.translation
            /\ verses[v].book = all[i].book
            /\ verses[v].chapter = all[i].chapter
            /\ verses[v].verse = all[i].verse
            /\ verses[v].text = all[i].text
       /\ req.offset % req.limit = 0 => res.results = SubSeq(all, req.offset + 1, last)

\* C16 witness: the second page of one row, of two matching verses
C16_Witness ==
  /\ req.op = "searchVerses"
  /\ req.limit = 1
  /\ req.offset = 1
  /\ res.total = 2
  /\ Len(res.results) = 1
  /\ res.results[1].verse = 3

(***************************************************************************)
(* Chapter index out of range.                                             *)
(***************************************************************************)
\* the chapter of the current request, as the digits sent, for a book the
\* request names: the pairs <<book, chapter number>>
ChapterAddressed ==
  IF req.op = "getVerse"
    THEN {<<BOOKS[b], Value(w[2])>> : <<w, b>> \in
            {p \in Written \X DOMAIN BOOKS : Names(p[1][1], BOOKS[p[2]])}}
  ELSE IF req.op = "getChapter" /\ IsNumeral(req.chapter)
    THEN {<<BOOKS[b], NumeralValue(req.chapter)>> : b \in
            {k \in DOMAIN BOOKS : Names(req.id, BOOKS[k])}}
  ELSE {}

ChapterIndexOutOfRange ==
  \E a \in ChapterAddressed : a[2] < 1 \/ a[2] > a[1].chapters

\* C17 as stated: on both routes a chapter index out of range for a known
\* book is answered 400 with an error code.
C17_Original_OutOfRangeChapterIs400 ==
  ChapterIndexOutOfRange =>
    /\ res.status = 400
    /\ "code" \in DOMAIN res.body.error

\* C17: a chapter index out of range for a known book is answered 400
\* INVALID_REFERENCE by GET /verses/{ref} and 404 CHAPTER_NOT_FOUND by
\* GET /books/{id}/chapters/{chapter}.
C17_OutOfRangeChapterRejected ==
  ChapterIndexOutOfRange =>
    /\ req.op = "getVerse" => InvalidReferenceResponse
    /\ req.op = "getChapter" =>
         res.status = 404 /\ res.body.error.code = "CHAPTER_NOT_FOUND"

\* C17 witness: GET /books/John/chapters/22 is answered 404 CHAPTER_NOT_FOUND
C17_Witness ==
  /\ req.op = "getChapter"
  /\ req.id = <<"J","o","h","n">>
  /\ req.chapter = <<"2","2">>
  /\ res.status = 404
  /\ res.body.error.code = "CHAPTER_NOT_FOUND"

(***************************************************************************)
(* Verse ranges.                                                           *)
(***************************************************************************)
\* the id of the translation the current GET /verses/{ref} request resolves to
ResolvedTranslationId ==
  LET language == IF req.language # Absent THEN req.language ELSE DEFAULT_LANGUAGE
  IN ResolveTranslation(translations, req.translation, language)[1].id

\* the stored verses of a translation, book and chapter numbered s..e, as
\* <<number, text>> pairs
StoredInRange(translationId, bookNumber, chapter, s, e) ==
  {<<verses[i].verse, verses[i].text>> : i \in
     {k \in DOMAIN verses :
        /\ verses[k].translation_id = translationId
        /\ verses[k].book = bookNumber
        /\ verses[k].chapter = chapter
        /\ verses[k].verse >= s
        /\ verses[k].verse <= e}}

\* C18: GET /verses/{ref} for a reference b.c.s-e with a known book, a chapter
\* in range, s < e and a translation that resolves returns exactly the
\* stored verses of the translation, book and chapter numbered s..e, in
\* strictly ascending order, and answers 404 VERSE_NOT_FOUND exactly when
\* there is none.
C18_RangeReturnsStoredVerses ==
  (req.op = "getVerse" /\ TranslationResolves) =>
    \A w \in Written : \A b \in DOMAIN BOOKS :
      /\ Names(w[1], BOOKS[b])
      /\ Value(w[2]) >= 1 /\ Value(w[2]) <= BOOKS[b].chapters
      /\ w[4] # Absent
      /\ Value(w[3]) < Value(w[4])
      => LET stored == StoredInRange(ResolvedTranslationId, BOOKS[b].number, Value(w[2]),
                                     Value(w[3]), Value(w[4]))
         IN /\ stored = {} <=> (res.status = 404 /\ res.body.error.code = "VERSE_NOT_FOUND")
            /\ stored # {} =>
                 /\ res.status = 200
                 /\ res.body.translation = ResolvedTranslationId
                 /\ {<<res.body.verses[i].number, res.body.verses[i].text>> :
                       i \in DOMAIN res.body.verses} = stored
                 /\ \A i, j \in DOMAIN res.body.verses :
                      i < j => res.body.verses[i].number < res.body.verses[j].number

\* C18 witness: John.3.1-3 on a translation that stores verses 1 and 3 only
C18_Witness ==
  /\ req.op = "getVerse"
  /\ req.ref = <<"J","o","h","n",".","3",".","1","-","3">>
  /\ res.status = 200
  /\ Len(res.body.verses) = 2
  /\ res.body.verses[1].number = 1
  /\ res.body.verses[2].number = 3

(***************************************************************************)
(* Default translation.                                                    *)
(***************************************************************************)
\* the stored translations of a language
OfLanguage(language) == {i \in DOMAIN translations : translations[i].language = language}

\* the curated default ids: en-kjv for en, fr-lsg for fr
CuratedDefault(language) ==
  IF language = <<"e","n">> THEN {<<"e","n","-","k","j","v">>}
  ELSE IF language = <<"f","r">> THEN {<<"f","r","-","l","s","g">>}
  ELSE {}

IsErrorEnvelope(body) ==
  /\ DOMAIN body = {"error"}
  /\ DOMAIN body.error = {"code", "message"}

SpecifiedErrorCodes ==
  {"NOT_FOUND", "BOOK_NOT_FOUND", "CHAPTER_NOT_FOUND", "VERSE_NOT_FOUND",
   "TRANSLATION_NOT_FOUND", "INVALID_REFERENCE", "MISSING_QUERY", "MISSING_REFS",
   "MISSING_PARAMETER", "INTERNAL_ERROR"}

FlaggedDefault(entry) == "default" \in DOMAIN entry /\ entry.default = TRUE

\* C21: GET /translations?language=L with a language code L is answered 200
\* with one entry for each stored translation of language L and no other
\* entry (none when there is no such translation) and echoes language L; in
\* every listing, filtered or not, default: true is carried by exactly the
\* entries whose id is en-kjv.
C21_TranslationsListing ==
  req.op = "getTranslations" =>
    /\ res.status = 200
    /\ req.language \notin {Absent, <<>>} =>
         /\ res.body.language = req.language
         /\ Len(res.body.translations) = Cardinality(OfLanguage(req.language))
         /\ \A i \in OfLanguage(req.language) : \E k \in DOMAIN res.body.translations :
              /\ res.body.translations[k].id = translations[i].id
              /\ res.body.translations[k].name = translations[i].name
         /\ \A k \in DOMAIN res.body.translations :
              res.body.translations[k].language = req.language
    /\ \A k \in DOMAIN res.body.translations :
         FlaggedDefault(res.body.translations[k])
           <=> res.body.translations[k].id = <<"e","n","-","k","j","v">>

\* C21 witness: language=en lists three translations, en-kjv flagged
C21_Witness ==
  /\ req.op = "getTranslations"
  /\ req.language = <<"e","n">>
  /\ res.status = 200
  /\ Len(res.body.translations) = 3
  /\ \E k \in DOMAIN res.body.translations : FlaggedDefault(res.body.translations[k])
  /\ \E i \in DOMAIN translations : translations[i].language = <<"f","r">>

\* the last operation ran a statement or a query
Executed == req.op \in {"statement", "query"}

\* C22: after any sequence of query operations and closeDatabase calls at
\* most one handle is open, and it is the module's handle; an operation
\* opens a handle only when there was none and otherwise runs on the one
\* there was; and the statement it executes was prepared on the handle that
\* is open now.  After closeDatabase no handle is open and no statement is
\* kept.
C22_OneHandleAndItsStatements ==
  /\ Cardinality(database.open) <= 1
  /\ database.open = IF database.db = 0 THEN {} ELSE {database.db}
  /\ \A s \in StatementNames : database.stmts[s] \in {0, database.db}
  /\ Executed =>
       /\ res.on = database.db
       /\ res.on \in database.open
       /\ res.before # 0 => res.on = res.before
       /\ res.before = 0 => res.on \notin 0 .. (database.created - 1)
       /\ res.preparedOn = res.on
  /\ req.op = "closeDatabase" => database.db = 0

\* a prepared statement is executed on a handle opened after a close
C22_Witness ==
  /\ req.op = "statement"
  /\ res.before = 0
  /\ res.on >= 2
  /\ res.preparedOn = res.on

\* the segment without the whitespace around it: the stretch of seg that
\* neither begins nor ends with whitespace and leaves only whitespace out
StrippedOf(seg) ==
  LET Blank(a, b) == \A i \in a..b : IsSpace(seg[i])
      stretches == {ab \in (1..(Len(seg) + 1)) \X (0..Len(seg)) :
                      /\ ab[1] <= ab[2] + 1
                      /\ Blank(1, ab[1] - 1) /\ Blank(ab[2] + 1, Len(seg))
                      /\ ab[1] <= ab[2] =>
                           (~IsSpace(seg[ab[1]]) /\ ~IsSpace(seg[ab[2]]))}
      ab == CHOOSE ab \in stretches : TRUE
  IN SubSeq(seg, ab[1], ab[2])

\* C23: parseMultipleReferences(s) has exactly one result per
\* comma-separated segment of s, in order; the i-th result is what
\* parseReference gives for the i-th segment without the whitespace around
\* it, whatever the other segments are; an empty segment gives a failure at
\* its own position.
C23_OneResultPerSegment ==
  \A l \in RefsWritten :
    TranslationResolves =>
      /\ Len(parsed) = Len(l)
      /\ \A i \in DOMAIN l :
           /\ parsed[i] = parseReference(StrippedOf(l[i]))
           /\ StrippedOf(l[i]) = <<>> => ~parsed[i].success

\* an empty segment fails at position 1 and the padded segment after it is
\* parsed all the same
C23_Witness ==
  /\ req.op = "getMultipleVerses"
  /\ req.refs = <<",", " ","j","h","n",".","3",".","3">>
  /\ Len(parsed) = 2
  /\ ~parsed[1].success
  /\ parsed[2].success
  /\ parsed[2].reference.verseStart = 3

\* the translation the current request asks for is in the store: the row
\* with the id given, or any row of the language when no id is given
RequestedTranslationKnown ==
  LET language == IF req.language # Absent THEN req.language ELSE DEFAULT_LANGUAGE
  IN IF req.translation \notin {Absent, <<>>}
       THEN \E i \in DOMAIN translations : translations[i].id = req.translation
     ELSE \E i \in DOMAIN translations : translations[i].language = language

\* the reference of the current request is written in the pattern but
\* breaks a rule: chapter outside the book, or end verse before start verse
WrittenInvalid ==
  \E w \in Written : \E b \in DOMAIN BOOKS :
    /\ Names(w[1], BOOKS[b])
    /\ \/ Value(w[2]) < 1
       \/ Value(w[2]) > BOOKS[b].chapters
       \/ (w[4] # Absent /\ Value(w[4]) < Value(w[3]))

\* C24: GET /verses/{ref} reports the first failing check in the order
\* reference, translation, verse: a reference that does not parse gives 400
\* INVALID_REFERENCE whether or not the translation is known; a reference
\* that parses with an unknown translation gives 404 TRANSLATION_NOT_FOUND;
\* 404 VERSE_NOT_FOUND and 200 are given only for a reference that parses
\* and a known translation.
C24_FirstFailingCheck ==
  req.op = "getVerse" =>
    /\ WrittenInvalid => ~parsed[1].success
    /\ ~parsed[1].success => InvalidReferenceResponse
    /\ (parsed[1].success /\ ~RequestedTranslationKnown) =>
         /\ res.status = 404
         /\ res.body.error.code = "TRANSLATION_NOT_FOUND"
    /\ (res.status = 200 \/ (res.status = 404 /\ res.body.error.code = "VERSE_NOT_FOUND"))
         => (parsed[1].success /\ RequestedTranslationKnown)
    /\ res.status \in {200, 400, 404}

\* a chapter outside the book asked of a translation that is not stored is
\* answered 400
C24_Witness ==
  /\ req.op = "getVerse"
  /\ req.ref = <<"J","o","h","n",".","2","2",".","1">>
  /\ req.translation = <<"n","o","p","e">>
  /\ ~RequestedTranslationKnown
  /\ InvalidReferenceResponse

\* the entries of a list
Entries(list) == {list[i] : i \in DOMAIN list}

\* C25 as stated: under every interleaving of concurrent callers, a list
\* returned by discoverTranslations has an entry for every file of the
\* source directory, so getTranslationMeta finds every existing id.
C25_Original_DiscoveryNeverOmits ==
  \A c \in Callers :
    callers[c].pc = "done" => Entries(XmlFiles) \subseteq Entries(callers[c].returned)

\* the keys of a Map
KeysOf(cache) == {cache[i].key : i \in DOMAIN cache}

\* C26 as stated: after any sequence of get, set and clear with arbitrary
\* string keys, the empty string included, the cache holds at most maxSize
\* entries.
C26_Original_AtMostMaxSize == Len(translationCache) <= maxSize

\* the last operation was a set of a key the Map did not have, on a Map
\* holding maxSize entries or more
InsertedIntoFull ==
  /\ req.op = "set"
  /\ req.key \notin KeysOf(res.before)
  /\ Len(res.before) >= maxSize

\* the keys of the cache that were touched, oldest touch first
TouchOrder(cache, keys) == SelectSeq(keys, LAMBDA k : k \in KeysOf(cache))

\* C27 as stated: a set that inserts a new key into a full cache evicts
\* exactly one entry, the one least recently touched; a set of a key already
\* present evicts nothing; and the keys of the last maxSize distinct touches
\* are all retrievable.
C27_Original_EvictsLeastRecentlyTouched ==
  /\ InsertedIntoFull =>
       KeysOf(res.before) \ KeysOf(translationCache)
         = {TouchOrder(res.before, res.touchedBefore)[1]}
  /\ (req.op = "set" /\ req.key \in KeysOf(res.before)) =>
       KeysOf(translationCache) = KeysOf(res.before)
  /\ \A i \in DOMAIN touched :
       i > Len(touched) - maxSize => touched[i] \in KeysOf(translationCache)

\* the stored verses of a translation, as the file gives them
StoredVersesOf(translationId) ==
  LET rows == SelectSeq(verses, LAMBDA r : r.translation_id = translationId)
  IN [i \in DOMAIN rows |-> [book |-> rows[i].book, chapter |-> rows[i].chapter,
                             verse |-> rows[i].verse, text |-> rows[i].text]]

\* C28 as stated: after any sequence of import runs, failed ones included,
\* every translation row has the complete set of verses of its source file
\* (a failed import leaves no translation row), and a file is skipped as
\* already existing only when its verses are stored.
C28_Original_ImportIsAtomic ==
  /\ \A i \in DOMAIN translations :
       StoredVersesOf(translations[i].id) = FileContent(translations[i].filename).verses
  /\ importer.last = "SKIPPED" =>
       LET filename == importer.files[importer.at - 1]
       IN StoredVersesOf(parseTranslationIdFromFilename(filename))
            = FileContent(filename).verses

EmOpen == <<"<","e","m",">">>
EmClose == <<"<","/","e","m",">">>

\* the highlighted text as the string of characters the client receives
RECURSIVE Characters(_)
Characters(h) ==
  IF h = <<>> THEN <<>>
  ELSE (IF Head(h) = "<em>" THEN EmOpen
        ELSE IF Head(h) = "</em>" THEN EmClose
        ELSE <<Head(h)>>) \o Characters(Tail(h))

\* s begins with pre
BeginsWith(s, pre) == Len(s) >= Len(pre) /\ SubSeq(s, 1, Len(pre)) = pre

\* s with every <em> and </em> removed, found left to right
RECURSIVE WithoutMarkers(_)
WithoutMarkers(s) ==
  IF s = <<>> THEN <<>>
  ELSE IF BeginsWith(s, EmOpen) THEN WithoutMarkers(SubSeq(s, 5, Len(s)))
  ELSE IF BeginsWith(s, EmClose) THEN WithoutMarkers(SubSeq(s, 6, Len(s)))
  ELSE <<Head(s)>> \o WithoutMarkers(Tail(s))

\* s contains <em> or </em>
ContainsMarker(s) == IndexOf(s, EmOpen) # 0 \/ IndexOf(s, EmClose) # 0

\* the markers of the highlighted text, in order
MarkersOf(h) == SelectSeq(h, LAMBDA x : x \in {"<em>", "</em>"})

\* C29: for a verse text without <em> and </em> and a non-empty query,
\* removing every <em> and </em> from highlightMatches(text, query) gives
\* the text back, character for character, and the markers come in pairs
\* <em> ... </em> one after the other: no span begins inside another.
C29_HighlightOnlyInsertsMarkers ==
  (req.op = "highlightMatches" /\ ~ContainsMarker(req.text)) =>
    /\ WithoutMarkers(Characters(res.highlight)) = req.text
    /\ LET markers == MarkersOf(res.highlight)
       IN /\ Len(markers) % 2 = 0
          /\ \A i \in DOMAIN markers :
               markers[i] = IF i % 2 = 1 THEN "<em>" ELSE "</em>"

\* a match between characters that are parts of a marker: "<a>" with the
\* query "A" is highlighted as "<<em>a</em>>"
C29_Witness ==
  /\ req.op = "highlightMatches"
  /\ req.text = <<"<","a",">">>
  /\ req.query = <<"A">>
  /\ res.highlight = <<"<", "<em>", "a", "</em>", ">">>

====
